---- MODULE Spec2Model ----
(***************************************************************************)
(* State-machine model of the ChainManager actor                           *)
(* (node/src/actors/chain_manager/mod.rs).                                 *)
(*                                                                         *)
(* The actor's fields are the record `cm`; one action per inbound message  *)
(* (AddBlock, AddTransaction, SetEpoch, the external toggle of `synced`).  *)
(* `sent` and `log` are the messages and the log lines the last handler    *)
(* produced, `last` is its input and `pre` the actor as it was before the  *)
(* handler ran (history variables used to state frame properties).         *)
(* `inventory` is the set of hashes of the blocks the inventory manager    *)
(* was handed (the consolidated blocks) and `offered` the hashes of the    *)
(* admissible blocks of the current epoch delivered on the current tip.    *)
(* `timers` holds the intervals of the ticks of the synchronization        *)
(* routine scheduled with run_later and not fired yet, `ticks` the number  *)
(* of ticks fired so far, modulo MaxTicks.  `reply` is the value the last  *)
(* handler returned to its caller, if it returns one.  `inflight` holds     *)
(* the requests the last handler made with `.wait(ctx)` that have not      *)
(* resolved yet, and `stored` how many times the report of each data       *)
(* request was handed to the storage manager (2 for twice or more).        *)
(* `added` is the set of hashes of the blocks the inventory manager has    *)
(* added: those whose AddItem request resolved with success.               *)
(***************************************************************************)
EXTENDS Integers, Sequences, FiniteSets, TLC

VARIABLES cm, sent, log, last, pre, inventory, offered, timers, ticks, reply,
          inflight, stored, added

vars == <<cm, sent, log, last, pre, inventory, offered, timers, ticks, reply,
          inflight, stored, added>>

-----------------------------------------------------------------------------
(* Bounds of the model                                                     *)

\* Highest epoch the epoch clock announces.
MaxEpoch == 4

\* Largest number of transactions the mempool holds in the model.
MaxMempool == 2

\* Longest synchronization period, in units of time.
MaxPeriod == 4

\* The fired ticks are counted modulo MaxTicks.
MaxTicks == 3

\* Number of bytes of a digest or of a signature component in the model
\* (32 in the program).
DigestLen == 2

-----------------------------------------------------------------------------
(* Option<T>                                                               *)

None == {}

Some(x) == {x}

Unwrap(o) == CHOOSE x \in o : TRUE

-----------------------------------------------------------------------------
(* Transactions, output pointers                                           *)

\* OutputPointer { transaction_id, output_index }
OutputPointer(id, idx) == <<id, idx>>

\* The outputs a transaction creates: one pointer per output.
OutputsOf(tx) == {OutputPointer(tx.id, i) : i \in 0 .. (tx.n_outputs - 1)}

\* A transaction: its hash (id), the pointers its inputs consume, its number
\* of outputs, and whether output 0 is a data-request output.  Transaction
\* hashes are numbers: 100 is the transaction that created the outputs existing
\* before the first block, 101..105 are ta..te, and the mint of the block with
\* hash h has hash h.
Tx(id, inputs, n, dr) ==
  [id |-> id, inputs |-> inputs, n_outputs |-> n, dr |-> dr, value |-> 0]

\* The mint (coinbase) transaction of the block with hash h: no inputs, one
\* output of the given value.
Mint(h, value) ==
  [id |-> h, inputs |-> {}, n_outputs |-> 1, dr |-> FALSE, value |-> value]

\* Outputs that exist before the first block (a rehydrated UTXO set).
GenesisOutputs == {OutputPointer(100, 0), OutputPointer(100, 1)}

ta == Tx(101, {OutputPointer(100, 0)}, 1, FALSE)

\* tb spends the same pointer as ta.
tb == Tx(102, {OutputPointer(100, 0)}, 0, FALSE)

\* tc spends the output ta creates.
tc == Tx(103, {OutputPointer(101, 0)}, 0, FALSE)

\* td creates a data request.
td == Tx(104, {OutputPointer(100, 1)}, 1, TRUE)

\* te spends the same pointer as td.
te == Tx(105, {OutputPointer(100, 1)}, 0, FALSE)

Transactions == {ta, tb, tc, td, te}

-----------------------------------------------------------------------------
(* Blocks                                                                  *)

\* genesis_block_hash
GenesisHash == 0

\* block_reward(epoch): the reward schedule (constant over the modelled epochs).
block_reward(epoch) == 5

\* The Merkle root commits to the transaction hashes, in order.
MerkleRoot(txns) == [i \in DOMAIN txns |-> txns[i].id]

\* A well-formed block with hash h: header { beacon { checkpoint,
\* hash_prev_block }, hash_merkle_root } and its transactions, the mint first.
Blk(h, epoch, prev, mint_value, txs) ==
  LET txns == <<Mint(h, mint_value)>> \o txs
  IN  [hash |-> h,
       block_header |-> [beacon |-> [checkpoint |-> epoch, hash_prev_block |-> prev],
                         hash_merkle_root |-> MerkleRoot(txns)],
       txns |-> txns]

\* The block with the header of b and a transaction list that does not match
\* the header's Merkle root.
Corrupt(b) == [b EXCEPT !.txns = <<b.txns[1]>> \o <<tb, tb>>]

ValidBlocks ==
  { Blk(3, 1, GenesisHash, 5, <<ta>>),
    Blk(1, 1, GenesisHash, 5, <<tb>>),
    Blk(2, 1, GenesisHash, 5, <<ta, tb>>),
    Blk(9, 1, 3, 5, <<>>),
    Blk(6, 2, 3, 5, <<tc>>),
    Blk(4, 2, 3, 5, <<td>>),
    Blk(5, 2, 1, 5, <<td>>),
    Blk(10, 2, GenesisHash, 5, <<>>),
    Blk(12, 2, GenesisHash, 9, <<>>),
    Blk(11, 2, 9, 5, <<>>),
    Blk(7, 3, 6, 5, <<>>),
    Blk(8, 3, 3, 5, <<te>>) }

Blocks == ValidBlocks \cup {Corrupt(b) : b \in {x \in ValidBlocks : x.hash \in {4, 11}}}

\* Block::hash(): the hash of the header.
hash(block) == block.hash

-----------------------------------------------------------------------------
(* Data-request pool                                                       *)

Stages == <<"WaitingCommits", "WaitingReveals", "WaitingTally">>

\* DataRequestPool::default(): no request, nothing to store.  The field
\* data_request_pool maps the pointer of each active request to its stage
\* (1..3, an index of Stages); to_be_stored holds the finished reports.
EmptyDataRequestPool == [data_request_pool |-> << >>, to_be_stored |-> {}]

MapInsert(m, k, v) == [x \in (DOMAIN m) \cup {k} |-> IF x = k THEN v ELSE m[x]]

\* DataRequestPool::process_transaction: a data-request output opens a request
\* keyed by the pointer of that output.
DrProcessTransaction(pool, tx) ==
  IF tx.dr
    THEN [pool EXCEPT !.data_request_pool = MapInsert(@, OutputPointer(tx.id, 0), 1)]
    ELSE pool

\* update_data_request_stages(): every active request moves to its next
\* stage; a request leaving WaitingTally is finished and queued for storage.
update_data_request_stages(pool) ==
  LET m == pool.data_request_pool
      finished == {p \in DOMAIN m : m[p] = Len(Stages)}
  IN  [data_request_pool |-> [p \in (DOMAIN m) \ finished |-> m[p] + 1],
       to_be_stored |-> pool.to_be_stored \cup finished]

\* finished_data_requests(): drains to_be_stored.
finished_data_requests(pool) ==
  [drained |-> pool.to_be_stored, pool |-> [pool EXCEPT !.to_be_stored = {}]]

-----------------------------------------------------------------------------
(* Validation kernel and UTXO engine                                       *)

\* validate_merkle_tree(block)
validate_merkle_tree(block) ==
  MerkleRoot(block.txns) = block.block_header.hash_merkle_root

\* Block::validate(block_reward, utxo): the first transaction is a mint with
\* no inputs whose value does not exceed the reward.
block_validate(block, reward, utxo) ==
  /\ Len(block.txns) >= 1
  /\ block.txns[1].inputs = {}
  /\ block.txns[1].value <= reward

\* Applying one transaction to a UTXO set: inputs removed, outputs inserted.
ApplyTx(utxo, tx) == (utxo \ tx.inputs) \cup OutputsOf(tx)

RECURSIVE ValidateFrom(_, _, _, _)
\* The loop of validate_transactions from transaction i on: every input must
\* be in the (shadow) UTXO set; the transaction is then applied to the shadow
\* UTXO set and the shadow data-request pool.
ValidateFrom(txns, i, utxo, dr_pool) ==
  IF i > Len(txns)
    THEN [ok |-> TRUE, utxo_set |-> utxo, data_request_pool |-> dr_pool]
    ELSE IF ~(txns[i].inputs \subseteq utxo)
           THEN [ok |-> FALSE, utxo_set |-> utxo, data_request_pool |-> dr_pool]
           ELSE ValidateFrom(txns, i + 1, ApplyTx(utxo, txns[i]),
                             DrProcessTransaction(dr_pool, txns[i]))

\* validate_transactions(&mut utxo_set, &txn_pool, &mut data_request_pool, &block)
validate_transactions(utxo_set, txn_pool, data_request_pool, block) ==
  ValidateFrom(block.txns, 1, utxo_set, data_request_pool)

RECURSIVE GenerateFrom(_, _, _)
GenerateFrom(txns, i, utxo) ==
  IF i > Len(txns) THEN utxo ELSE GenerateFrom(txns, i + 1, ApplyTx(utxo, txns[i]))

\* ChainState::generate_unspent_outputs_pool(&block)
generate_unspent_outputs_pool(chain_state, block) ==
  GenerateFrom(block.txns, 1, chain_state.unspent_outputs_pool)

-----------------------------------------------------------------------------
(* Storable: the persisted serialization (a MessagePack encoding)          *)

\* A value to store: an unsigned integer, None, Some(x), a sequence (a
\* struct, a tuple, a fixed array or a Vec, encoded alike), a variant of an
\* enum with its fields, or a map given as the sequence key, value, key, ...
U(n) == [k |-> "uint", n |-> n, xs |-> << >>]

NoneV == [k |-> "none", n |-> 0, xs |-> << >>]

SomeV(x) == [k |-> "some", n |-> 0, xs |-> <<x>>]

SeqV(xs) == [k |-> "seq", n |-> 0, xs |-> xs]

Variant(i, fields) == [k |-> "enum", n |-> i, xs |-> fields]

MapV(xs) == [k |-> "map", n |-> 0, xs |-> xs]

\* The type from_bytes is asked for: the encoding is not self-describing for
\* options and enums.
UintT == [k |-> "uint", ts |-> << >>]

OptionT(t) == [k |-> "opt", ts |-> <<t>>]

StructT(ts) == [k |-> "struct", ts |-> ts]

VecT(t) == [k |-> "vec", ts |-> <<t>>]

\* An enum, given by the struct type of the fields of each variant.
EnumT(variants) == [k |-> "enum", ts |-> variants]

MapT(key, value) == [k |-> "map", ts |-> <<key, value>>]

\* The marker bytes of the encoding: nil, the header of an array and of a map
\* of up to 15 entries, and the prefixes of an 8-bit and a 16-bit unsigned
\* integer; an integer below PosFixLimit is its own encoding.
Nil == 192

FixArray == 144

FixMap == 128

FixLimit == 15

Uint8 == 204

Uint16 == 205

PosFixLimit == 128

EncodeUint(n) ==
  IF n < PosFixLimit THEN <<n>>
  ELSE IF n < 256 THEN <<Uint8, n>>
  ELSE <<Uint16, (n \div 256) % 256, n % 256>>

RECURSIVE Encode(_)
\* The bytes of a value.  None is nil and Some(x) is encoded as x itself.
Encode(v) ==
  LET RECURSIVE EncodeAll(_)
      EncodeAll(xs) == IF xs = << >> THEN << >> ELSE Encode(Head(xs)) \o EncodeAll(Tail(xs))
  IN  CASE v.k = "uint" -> EncodeUint(v.n)
        [] v.k = "none" -> <<Nil>>
        [] v.k = "some" -> Encode(v.xs[1])
        [] v.k = "seq"  -> <<FixArray + Len(v.xs)>> \o EncodeAll(v.xs)
        [] v.k = "enum" -> <<FixArray + 2>> \o EncodeUint(v.n)
                             \o <<FixArray + Len(v.xs)>> \o EncodeAll(v.xs)
        [] v.k = "map"  -> <<FixMap + (Len(v.xs) \div 2)>> \o EncodeAll(v.xs)

\* The result of a failed decoding.
Fail == [ok |-> FALSE, value |-> NoneV, rest |-> << >>]

Parsed(value, rest) == [ok |-> TRUE, value |-> value, rest |-> rest]

DecodeUint(bytes) ==
  IF bytes = << >> THEN Fail
  ELSE IF bytes[1] < PosFixLimit THEN Parsed(U(bytes[1]), Tail(bytes))
  ELSE IF bytes[1] = Uint8 /\ Len(bytes) >= 2
    THEN Parsed(U(bytes[2]), SubSeq(bytes, 3, Len(bytes)))
  ELSE IF bytes[1] = Uint16 /\ Len(bytes) >= 3
    THEN Parsed(U(bytes[2] * 256 + bytes[3]), SubSeq(bytes, 4, Len(bytes)))
  ELSE Fail

\* The number of entries an array or map header announces, or -1.
Announced(bytes, header) ==
  IF bytes # << >> /\ bytes[1] >= header /\ bytes[1] <= header + FixLimit
    THEN bytes[1] - header
    ELSE -1

RECURSIVE Decode(_, _)
\* A value of type t read from the front of the bytes.  For an option, nil is
\* None and anything else is read as Some of the inner type.
Decode(t, bytes) ==
  LET RECURSIVE DecodeEach(_, _)
      \* the values of the given types, one after the other
      DecodeEach(ts, bs) ==
        IF ts = << >> THEN Parsed(<< >>, bs)
        ELSE LET r == Decode(Head(ts), bs)
             IN  IF ~r.ok THEN Fail
                 ELSE LET q == DecodeEach(Tail(ts), r.rest)
                      IN  IF q.ok THEN Parsed(<<r.value>> \o q.value, q.rest) ELSE Fail
      sequence(ts, bs, wrap(_)) ==
        LET r == DecodeEach(ts, bs)
        IN  IF r.ok THEN Parsed(wrap(r.value), r.rest) ELSE Fail
  IN  CASE t.k = "uint" -> DecodeUint(bytes)
        [] t.k = "opt" ->
             IF bytes # << >> /\ bytes[1] = Nil
               THEN Parsed(NoneV, Tail(bytes))
               ELSE LET r == Decode(t.ts[1], bytes)
                    IN  IF r.ok THEN Parsed(SomeV(r.value), r.rest) ELSE Fail
        [] t.k = "struct" ->
             IF Announced(bytes, FixArray) = Len(t.ts)
               THEN sequence(t.ts, Tail(bytes), SeqV)
               ELSE Fail
        [] t.k = "vec" ->
             LET n == Announced(bytes, FixArray)
             IN  IF n >= 0
                   THEN sequence([i \in 1 .. n |-> t.ts[1]], Tail(bytes), SeqV)
                   ELSE Fail
        [] t.k = "map" ->
             LET n == Announced(bytes, FixMap)
             IN  IF n >= 0
                   THEN sequence([i \in 1 .. 2 * n |-> t.ts[2 - (i % 2)]], Tail(bytes), MapV)
                   ELSE Fail
        [] t.k = "enum" ->
             IF Announced(bytes, FixArray) # 2 THEN Fail
             ELSE LET i == DecodeUint(Tail(bytes))
                  IN  IF ~i.ok \/ (i.value.n + 1) \notin DOMAIN t.ts THEN Fail
                      ELSE LET fields == Decode(t.ts[i.value.n + 1], i.rest)
                           IN  IF fields.ok
                                 THEN Parsed(Variant(i.value.n, fields.value.xs), fields.rest)
                                 ELSE Fail

\* Storable::to_bytes
Storable_to_bytes(value) == [ok |-> TRUE, bytes |-> Encode(value)]

\* Storable::from_bytes: the bytes must be one value of the type and nothing
\* more.
Storable_from_bytes(t, bytes) ==
  LET r == Decode(t, bytes)
  IN  IF r.ok /\ r.rest = << >>
        THEN [ok |-> TRUE, value |-> r.value]
        ELSE [ok |-> FALSE, value |-> NoneV]

\* [u8; DigestLen]: the bytes of a number, high byte first.
Bytes(h) == SeqV([i \in 1 .. DigestLen |-> U((h \div (256 ^ (DigestLen - i))) % 256)])

BytesT == StructT([i \in 1 .. DigestLen |-> UintT])

\* Hash::SHA256([u8; 32])
HashValue(h) == Variant(0, <<Bytes(h)>>)

HashT == EnumT(<<StructT(<<BytesT>>)>>)

\* OutputPointer { transaction_id, output_index }
OutputPointerValue(pointer) == SeqV(<<HashValue(pointer[1]), U(pointer[2])>>)

OutputPointerT == StructT(<<HashT, UintT>>)

\* OutputPointer::to_bytes(): the key of the report of a data request.
to_bytes(pointer) == Storable_to_bytes(OutputPointerValue(pointer)).bytes

\* Signature::Secp256k1(Secp256k1Signature { r, s, v })
SignatureValue(r, sg, v) == Variant(0, <<SeqV(<<Bytes(r), Bytes(sg), U(v)>>)>>)

SignatureT == EnumT(<<StructT(<<StructT(<<BytesT, BytesT, UintT>>)>>)>>)

\* LeadershipProof { block_sig, influence }
LeadershipProofValue(block_sig, influence) == SeqV(<<block_sig, U(influence)>>)

LeadershipProofT == StructT(<<OptionT(SignatureT), UintT>>)

\* CheckpointBeacon { checkpoint, hash_prev_block }
CheckpointBeaconValue(beacon) ==
  SeqV(<<U(beacon.checkpoint), HashValue(beacon.hash_prev_block)>>)

CheckpointBeaconT == StructT(<<UintT, HashT>>)

RECURSIVE PointerSeq(_)
\* The pointers of a set in the order of their keys.
PointerSeq(pointers) ==
  IF pointers = {} THEN << >>
  ELSE LET first == CHOOSE p \in pointers :
                      \A q \in pointers : p[1] < q[1] \/ (p[1] = q[1] /\ p[2] <= q[2])
       IN  <<first>> \o PointerSeq(pointers \ {first})

\* Transaction { version, inputs, outputs }, an input reduced to the pointer
\* it consumes and an output to its value.
TransactionValue(tx) ==
  LET inputs == PointerSeq(tx.inputs)
  IN  SeqV(<<U(0),
             SeqV([i \in DOMAIN inputs |-> OutputPointerValue(inputs[i])]),
             SeqV([i \in 1 .. tx.n_outputs |-> U(tx.value)])>>)

TransactionT == StructT(<<UintT, VecT(OutputPointerT), VecT(UintT)>>)

\* Block { block_header { version, beacon, hash_merkle_root }, proof, txns };
\* the Merkle root is stored as the digest of the block's own hash.
BlockValue(block, proof) ==
  SeqV(<<SeqV(<<U(1), CheckpointBeaconValue(block.block_header.beacon),
                HashValue(block.hash)>>),
         proof,
         SeqV([i \in DOMAIN block.txns |-> TransactionValue(block.txns[i])])>>)

BlockT ==
  StructT(<<StructT(<<UintT, CheckpointBeaconT, HashT>>), LeadershipProofT, VecT(TransactionT)>>)

\* InventoryItem::Block(block): the variant with index 1.
InventoryItemBlock(block, proof) == Variant(1, <<BlockValue(block, proof)>>)

InventoryItemT == EnumT(<<StructT(<<TransactionT>>), StructT(<<BlockT>>)>>)

\* The entries of a map in the order of its keys, as key, value, key, ...
Entries(keys, values) ==
  [i \in 1 .. 2 * Len(keys) |->
     IF i % 2 = 1 THEN keys[(i + 1) \div 2] ELSE values[i \div 2]]

RECURSIVE EpochSeq(_)
EpochSeq(epochs) ==
  IF epochs = {} THEN << >>
  ELSE LET first == CHOOSE e \in epochs : \A f \in epochs : e <= f
       IN  <<first>> \o EpochSeq(epochs \ {first})

\* ChainState { chain_info, unspent_outputs_pool, data_request_pool,
\* block_chain }, ChainInfo reduced to highest_block_checkpoint and an output
\* of the UTXO set to the value 0.
ChainStateValue(chain_state) ==
  LET pool == chain_state.data_request_pool
      outputs == PointerSeq(chain_state.unspent_outputs_pool)
      requests == PointerSeq(DOMAIN pool.data_request_pool)
      epochs == EpochSeq(DOMAIN chain_state.block_chain)
  IN  SeqV(<<IF chain_state.chain_info = None
               THEN NoneV
               ELSE SomeV(SeqV(<<CheckpointBeaconValue(
                                   (Unwrap(chain_state.chain_info)).highest_block_checkpoint)>>)),
             MapV(Entries([i \in DOMAIN outputs |-> OutputPointerValue(outputs[i])],
                          [i \in DOMAIN outputs |-> U(0)])),
             SeqV(<<MapV(Entries([i \in DOMAIN requests |-> OutputPointerValue(requests[i])],
                                 [i \in DOMAIN requests |->
                                    U(pool.data_request_pool[requests[i]])])),
                    LET stored_next == PointerSeq(pool.to_be_stored)
                    IN  SeqV([i \in DOMAIN stored_next |-> OutputPointerValue(stored_next[i])])>>),
             MapV(Entries([i \in DOMAIN epochs |-> U(epochs[i])],
                          [i \in DOMAIN epochs |->
                             HashValue(chain_state.block_chain[epochs[i]])]))>>)

ChainStateT ==
  StructT(<<OptionT(StructT(<<CheckpointBeaconT>>)),
            MapT(OutputPointerT, UintT),
            StructT(<<MapT(OutputPointerT, UintT), VecT(OutputPointerT)>>),
            MapT(UintT, HashT)>>)

-----------------------------------------------------------------------------
(* The ChainManager actor                                                  *)

\* ChainInfo, reduced to highest_block_checkpoint: the CheckpointBeacon of the
\* tip, whose hash_prev_block field holds the hash of the tip block itself.
ChainInfo(checkpoint, h) ==
  [highest_block_checkpoint |-> [checkpoint |-> checkpoint, hash_prev_block |-> h]]

\* ChainManager::default(), with the fields the start-up fills in: chain_info
\* and the UTXO set are rehydrated from storage when a chain state was stored.
ChainManager(chain_info, utxo) ==
  [chain_state |-> [chain_info |-> chain_info,
                    unspent_outputs_pool |-> utxo,
                    data_request_pool |-> EmptyDataRequestPool,
                    block_chain |-> << >>],
   blocks_to_validate |-> << >>,
   candidate_to_validate |-> None,
   current_epoch |-> None,
   transactions_pool |-> {},
   best_candidate |-> None,
   genesis_block_hash |-> GenesisHash,
   data_request_pool |-> EmptyDataRequestPool,
   mine |-> FALSE,
   synced |-> FALSE,
   synchronizing_period |-> 1,
   synced_period |-> 2]

\* A handler in progress: the actor, the messages sent, the lines logged and
\* the intervals scheduled with run_later so far.
Run(self) == [self |-> self, sent |-> << >>, log |-> << >>, timers |-> << >>]

Send(s, msg) == [s EXCEPT !.sent = Append(@, msg)]

Log(s, line) == [s EXCEPT !.log = Append(@, line)]

\* persist_chain_state without the test of chain_info.
persist_chain_state_Always(s) == Send(s, [type |-> "PutChainState"])

\* persist_chain_state: nothing is sent while chain_info is absent.
persist_chain_state(s) ==
  IF s.self.chain_state.chain_info = None
    THEN Log(s, "Trying to persist an empty chain state value")
    ELSE Send(s, [type |-> "PutChainState"])

\* persist_item: AddItem to the inventory manager.
persist_item(s, block) == Send(s, [type |-> "AddItem", hash |-> hash(block)])

\* persist_data_request: Put of one report, keyed by the bytes of its output
\* pointer.
persist_data_request(s, pointer) ==
  Send(s, [type |-> "PutDataRequest", key |-> to_bytes(pointer)])

\* The finished reports dropped instead of persisted.
PersistDataRequests_None(s, reports) == s

RECURSIVE PersistDataRequests(_, _)
\* to_be_stored.into_iter().for_each(|dr| persist_data_request(ctx, &dr))
PersistDataRequests(s, reports) ==
  IF reports = {}
    THEN s
    ELSE LET p == CHOOSE x \in reports : TRUE
         IN  PersistDataRequests(persist_data_request(s, p), reports \ {p})

\* broadcast_item: Broadcast { SendInventoryItem } to the sessions manager.
broadcast_item(s, block) == Send(s, [type |-> "Broadcast", hash |-> hash(block)])

\* request_block: Anycast { RequestBlock } to the sessions manager.
request_block(s, h) == Send(s, [type |-> "RequestBlock", hash |-> h])

\* InventoryEntry::{Error, Block, Tx, DataRequest, DataResult}(hash)
InventoryEntry(kind, h) == [kind |-> kind, hash |-> h]

\* discard_existing_inventory_entries: the entries whose hash is not a key of
\* blocks_to_validate, in the order given, wrapped in Ok.
discard_existing_inventory_entries(self, inv_entries) ==
  LET missing(inv_entry) == inv_entry.hash \notin DOMAIN self.blocks_to_validate
  IN  [ok |-> TRUE, value |-> SelectSeq(inv_entries, missing)]

\* update_transaction_pool that removes nothing.
update_transaction_pool_Keep(pool, txns) == pool

\* update_transaction_pool: removes the block's transactions from the mempool.
update_transaction_pool(pool, txns) ==
  {t \in pool : t.id \notin {txns[i].id : i \in DOMAIN txns}}

\* A copy of the pool that leaves out the active requests.
ActiveDataRequestPool_Partial(pool) ==
  [data_request_pool |-> << >>, to_be_stored |-> pool.to_be_stored]

\* ActiveDataRequestPool { .. }: the view of the live pool stored in the chain
\* state, a copy field by field.
ActiveDataRequestPool(pool) ==
  [data_request_pool |-> pool.data_request_pool, to_be_stored |-> pool.to_be_stored]

\* Consolidation that moves the tip without inserting into the block-chain
\* index.
Consolidate_NoInsert(s, block, data_request_pool) ==
  LET block_hash == hash(block)
      block_epoch == block.block_header.beacon.checkpoint
      s1 == persist_item(s, block)
      utxo == generate_unspent_outputs_pool(s1.self.chain_state, block)
      staged == update_data_request_stages(data_request_pool)
      fin == finished_data_requests(staged)
      s2 == [s1 EXCEPT !.self.chain_state.unspent_outputs_pool = utxo,
                       !.self.transactions_pool = update_transaction_pool(@, block.txns),
                       !.self.data_request_pool = fin.pool]
      s3 == PersistDataRequests(s2, fin.drained)
      s4 == [s3 EXCEPT !.self.chain_state.data_request_pool =
                         ActiveDataRequestPool(s3.self.data_request_pool)]
  IN  IF s4.self.chain_state.chain_info # None
        THEN Log([s4 EXCEPT !.self.chain_state.chain_info =
                              Some(ChainInfo(block_epoch, block_hash))],
                 "Chain Info updated")
        ELSE Log(s4, "No ChainInfo loaded in ChainManager")

\* The branch of process_poe_validation_response for a block of a past epoch:
\* the block is consolidated into the live state.
Consolidate(s, block, data_request_pool) ==
  LET block_hash == hash(block)
      block_epoch == block.block_header.beacon.checkpoint
      s1 == persist_item(s, block)
      utxo == generate_unspent_outputs_pool(s1.self.chain_state, block)
      staged == update_data_request_stages(data_request_pool)
      fin == finished_data_requests(staged)
      s2 == [s1 EXCEPT !.self.chain_state.unspent_outputs_pool = utxo,
                       !.self.transactions_pool = update_transaction_pool(@, block.txns),
                       !.self.data_request_pool = fin.pool]
      s3 == PersistDataRequests(s2, fin.drained)
      s4 == [s3 EXCEPT !.self.chain_state.data_request_pool =
                         ActiveDataRequestPool(s3.self.data_request_pool)]
  IN  IF s4.self.chain_state.chain_info # None
        THEN Log([s4 EXCEPT !.self.chain_state.chain_info =
                              Some(ChainInfo(block_epoch, block_hash)),
                            !.self.chain_state.block_chain =
                              MapInsert(@, block_epoch, block_hash)],
                 "Chain Info updated")
        ELSE Log(s4, "No ChainInfo loaded in ChainManager")

\* process_poe_validation_response writing the dry-run result of a block of the
\* current epoch into the live UTXO set and the live data-request pool.
process_poe_validation_response_Live(s, block) ==
  LET v == validate_transactions(s.self.chain_state.unspent_outputs_pool,
                                 s.self.transactions_pool,
                                 s.self.data_request_pool, block)
      block_epoch == block.block_header.beacon.checkpoint
  IN  IF v.ok
        THEN IF Some(block_epoch) = s.self.current_epoch
               THEN broadcast_item(
                      [s EXCEPT !.self.best_candidate =
                         Some([block |-> block, utxo_set |-> v.utxo_set,
                               data_request_pool |-> v.data_request_pool]),
                                !.self.chain_state.unspent_outputs_pool = v.utxo_set,
                                !.self.data_request_pool = v.data_request_pool],
                      block)
               ELSE Consolidate(s, block, v.data_request_pool)
        ELSE Log(s, "Transactions not valid")

\* process_poe_validation_response storing the candidate without broadcasting
\* it.
process_poe_validation_response_Quiet(s, block) ==
  LET v == validate_transactions(s.self.chain_state.unspent_outputs_pool,
                                 s.self.transactions_pool,
                                 s.self.data_request_pool, block)
      block_epoch == block.block_header.beacon.checkpoint
  IN  IF v.ok
        THEN IF Some(block_epoch) = s.self.current_epoch
               THEN [s EXCEPT !.self.best_candidate =
                       Some([block |-> block, utxo_set |-> v.utxo_set,
                             data_request_pool |-> v.data_request_pool])]
               ELSE Consolidate(s, block, v.data_request_pool)
        ELSE Log(s, "Transactions not valid")

\* process_poe_validation_response
process_poe_validation_response(s, block) ==
  LET v == validate_transactions(s.self.chain_state.unspent_outputs_pool,
                                 s.self.transactions_pool,
                                 s.self.data_request_pool, block)
      block_epoch == block.block_header.beacon.checkpoint
  IN  IF v.ok
        THEN IF Some(block_epoch) = s.self.current_epoch
               THEN broadcast_item(
                      [s EXCEPT !.self.best_candidate =
                         Some([block |-> block, utxo_set |-> v.utxo_set,
                               data_request_pool |-> v.data_request_pool])],
                      block)
               ELSE Consolidate(s, block, v.data_request_pool)
        ELSE Log(s, "Transactions not valid")

\* The tip: chain_info.highest_block_checkpoint (chain_info must be present).
Tip(self) == (Unwrap(self.chain_state.chain_info)).highest_block_checkpoint

\* The comparison of our_candidate_is_better reversed: a bigger hash wins.
OurCandidateIsBetter_Reversed(self, block) ==
  /\ Some(block.block_header.beacon.checkpoint) = self.current_epoch
  /\ IF self.best_candidate # None
       THEN hash((Unwrap(self.best_candidate)).block) >= hash(block)
       ELSE FALSE

\* our_candidate_is_better: the block is of the current epoch and the
\* candidate's hash is not bigger than the block's.
OurCandidateIsBetter(self, block) ==
  /\ Some(block.block_header.beacon.checkpoint) = self.current_epoch
  /\ IF self.best_candidate # None
       THEN hash((Unwrap(self.best_candidate)).block) <= hash(block)
       ELSE FALSE

\* The test of the tip's checkpoint left out.
OlderThanTip_Never(self, block_epoch) == FALSE

\* The tip's checkpoint is greater than the block's epoch.
OlderThanTip(self, block_epoch) ==
  /\ self.chain_state.chain_info # None
  /\ Tip(self).checkpoint > block_epoch

\* The test of the predecessor left out.
UnknownPredecessor_Never(self, hash_prev_block) == FALSE

\* The block's predecessor is neither the genesis block nor the tip.
UnknownPredecessor(self, hash_prev_block) ==
  /\ hash_prev_block # self.genesis_block_hash
  /\ self.chain_state.chain_info # None
  /\ Tip(self).hash_prev_block # hash_prev_block

\* Parking without the test of the synced flag.
ParkOrIgnore_Unsynced(s, block, current_epoch) ==
  LET hash_prev_block == block.block_header.beacon.hash_prev_block
  IN  IF current_epoch = block.block_header.beacon.checkpoint
        THEN Log(request_block([s EXCEPT !.self.candidate_to_validate = Some(block)],
                               hash_prev_block),
                 "Requesting previous block")
        ELSE Log(s, "Ignoring block because previous hash is not known")

\* The block's predecessor is unknown: the block is parked and its
\* predecessor requested when it is of the current epoch and the node is
\* synced, and ignored otherwise.
ParkOrIgnore(s, block, current_epoch) ==
  LET hash_prev_block == block.block_header.beacon.hash_prev_block
  IN  IF current_epoch = block.block_header.beacon.checkpoint /\ s.self.synced
        THEN Log(request_block([s EXCEPT !.self.candidate_to_validate = Some(block)],
                               hash_prev_block),
                 "Requesting previous block")
        ELSE Log(s, "Ignoring block because previous hash is not known")

\* The chain of checks of process_block without the Merkle check: the block
\* goes on to the other checks whatever its Merkle root.
ValidateBlock_NoMerkle(s, block, our_candidate_is_better, current_epoch) ==
  LET block_epoch == block.block_header.beacon.checkpoint
      hash_prev_block == block.block_header.beacon.hash_prev_block
  IN  IF block_epoch > current_epoch
        THEN Log(s, "Block epoch from the future")
      ELSE IF OlderThanTip(s.self, block_epoch)
        THEN Log(s, "Ignoring block older than highest block checkpoint")
      ELSE IF our_candidate_is_better
        THEN Log(s, "We already had a better candidate")
      ELSE IF UnknownPredecessor(s.self, hash_prev_block)
        THEN ParkOrIgnore(s, block, current_epoch)
      ELSE IF ~block_validate(block, block_reward(block_epoch),
                              s.self.chain_state.unspent_outputs_pool)
        THEN Log(s, "Block's mint transaction is not valid")
      ELSE process_poe_validation_response(s, block)

\* The chain of checks of process_block without the test of a future epoch.
ValidateBlock_NoFuture(s, block, our_candidate_is_better, current_epoch) ==
  LET block_epoch == block.block_header.beacon.checkpoint
      hash_prev_block == block.block_header.beacon.hash_prev_block
  IN  IF ~validate_merkle_tree(block)
        THEN Log(s, "Block merkle tree not valid")
      ELSE IF OlderThanTip(s.self, block_epoch)
        THEN Log(s, "Ignoring block older than highest block checkpoint")
      ELSE IF our_candidate_is_better
        THEN Log(s, "We already had a better candidate")
      ELSE IF UnknownPredecessor(s.self, hash_prev_block)
        THEN ParkOrIgnore(s, block, current_epoch)
      ELSE IF ~block_validate(block, block_reward(block_epoch),
                              s.self.chain_state.unspent_outputs_pool)
        THEN Log(s, "Block's mint transaction is not valid")
      ELSE process_poe_validation_response(s, block)

\* The chain of checks of process_block without the check of the mint.
ValidateBlock_NoMint(s, block, our_candidate_is_better, current_epoch) ==
  LET block_epoch == block.block_header.beacon.checkpoint
      hash_prev_block == block.block_header.beacon.hash_prev_block
  IN  IF ~validate_merkle_tree(block)
        THEN Log(s, "Block merkle tree not valid")
      ELSE IF block_epoch > current_epoch
        THEN Log(s, "Block epoch from the future")
      ELSE IF OlderThanTip(s.self, block_epoch)
        THEN Log(s, "Ignoring block older than highest block checkpoint")
      ELSE IF our_candidate_is_better
        THEN Log(s, "We already had a better candidate")
      ELSE IF UnknownPredecessor(s.self, hash_prev_block)
        THEN ParkOrIgnore(s, block, current_epoch)
      ELSE process_poe_validation_response(s, block)

\* The chain of checks of process_block on the block itself.
ValidateBlock(s, block, our_candidate_is_better, current_epoch) ==
  LET block_epoch == block.block_header.beacon.checkpoint
      hash_prev_block == block.block_header.beacon.hash_prev_block
  IN  IF ~validate_merkle_tree(block)
        THEN Log(s, "Block merkle tree not valid")
      ELSE IF block_epoch > current_epoch
        THEN Log(s, "Block epoch from the future")
      ELSE IF OlderThanTip(s.self, block_epoch)
        THEN Log(s, "Ignoring block older than highest block checkpoint")
      ELSE IF our_candidate_is_better
        THEN Log(s, "We already had a better candidate")
      ELSE IF UnknownPredecessor(s.self, hash_prev_block)
        THEN ParkOrIgnore(s, block, current_epoch)
      ELSE IF ~block_validate(block, block_reward(block_epoch),
                              s.self.chain_state.unspent_outputs_pool)
        THEN Log(s, "Block's mint transaction is not valid")
      ELSE process_poe_validation_response(s, block)

\* The re-feed test the other way round: the parked block is re-processed
\* when its predecessor hash is the hash of the incoming block.
Refeeds_OnPredecessor(self, block) ==
  /\ self.candidate_to_validate # None
  /\ (Unwrap(self.candidate_to_validate)).block_header.beacon.hash_prev_block = hash(block)

\* The parked block is taken; it is re-processed when its hash is the
\* predecessor hash of the incoming block, and put back otherwise.
Refeeds(self, block) ==
  /\ self.candidate_to_validate # None
  /\ hash(Unwrap(self.candidate_to_validate)) = block.block_header.beacon.hash_prev_block

RECURSIVE process_block(_, _)
\* process_block that leaves the parked block in the slot while it re-feeds it.
process_block_Keep(s, block) ==
  LET our_candidate_is_better == OurCandidateIsBetter(s.self, block)
  IN  IF s.self.current_epoch = None
        THEN Log(s, "ChainManager doesn't have current epoch")
        ELSE LET current_epoch == Unwrap(s.self.current_epoch)
                 s1 == IF Refeeds(s.self, block)
                         THEN process_block(Log(s, "Processing block in memory"),
                                            Unwrap(s.self.candidate_to_validate))
                         ELSE s
             IN  ValidateBlock(s1, block, our_candidate_is_better, current_epoch)

\* process_block that takes checkpoint 0 for an absent current epoch.
process_block_Default(s, block) ==
  LET our_candidate_is_better == OurCandidateIsBetter(s.self, block)
      current_epoch == IF s.self.current_epoch = None
                         THEN 0
                         ELSE Unwrap(s.self.current_epoch)
      s1 == IF Refeeds(s.self, block)
              THEN process_block(
                     Log([s EXCEPT !.self.candidate_to_validate = None],
                         "Processing block in memory"),
                     Unwrap(s.self.candidate_to_validate))
              ELSE s
  IN  ValidateBlock(s1, block, our_candidate_is_better, current_epoch)

\* process_block
process_block(s, block) ==
  LET our_candidate_is_better == OurCandidateIsBetter(s.self, block)
  IN  IF s.self.current_epoch = None
        THEN Log(s, "ChainManager doesn't have current epoch")
        ELSE LET current_epoch == Unwrap(s.self.current_epoch)
                 s1 == IF Refeeds(s.self, block)
                         THEN process_block(
                                Log([s EXCEPT !.self.candidate_to_validate = None],
                                    "Processing block in memory"),
                                Unwrap(s.self.candidate_to_validate))
                         ELSE s
             IN  ValidateBlock(s1, block, our_candidate_is_better, current_epoch)

-----------------------------------------------------------------------------
(* Resolution of the requests made with `.wait(ctx)`                       *)

\* What a request resolves to: the reply Ok(Ok(_)), a store error Ok(Err(_))
\* or a send error Err(_).
Outcomes == {"Ok", "StoreError", "SendError"}

\* The line the `.then` closure of a request logs for an outcome, if any.
ResolutionLines(request, outcome) ==
  IF request.type = "AddItem"
    THEN IF outcome = "SendError"
           THEN <<"Unsuccessful communication with InventoryManager">>
         ELSE IF outcome = "StoreError"
           THEN <<"Error while getting block from InventoryManager">>
         ELSE << >>
    ELSE IF outcome = "Ok"
           THEN IF request.type = "PutChainState"
                  THEN <<"Successfully persisted chain_info into storage">>
                  ELSE <<"Successfully persisted block_chain into storage">>
           ELSE IF request.type = "PutChainState"
                  THEN <<"Failed to persist chain_info into storage">>
                  ELSE <<"Failed to persist block_chain into storage">>

\* A `.then` closure that sends a Put again when it failed.
Resolved_Retry(s, request, outcome) ==
  LET s1 == [s EXCEPT !.log = @ \o ResolutionLines(request, outcome)]
  IN  IF request.type # "AddItem" /\ outcome # "Ok" THEN Send(s1, request) ELSE s1

\* The `.then` closures of persist_chain_state, persist_data_request and
\* persist_item: they log the outcome and do nothing else.
Resolved(s, request, outcome) ==
  [s EXCEPT !.log = @ \o ResolutionLines(request, outcome)]

-----------------------------------------------------------------------------
(* Synchronization routine                                                 *)

\* synchronize that schedules nothing.
synchronize_Drop(s, sync_interval) == s

\* synchronize(ctx, sync_interval): ctx.run_later(sync_interval, closure).
synchronize(s, sync_interval) == [s EXCEPT !.timers = Append(@, sync_interval)]

\* The closure synchronize schedules, run when the timer of the given interval
\* fires: one InventoryExchange anycast; when synced, the mine flag is set to
\* whether this tick was scheduled at synced_period and the next tick is
\* scheduled at synced_period; otherwise the next tick is scheduled at
\* synchronizing_period and the mine flag is left as it is.
Triggered(s, sync_interval) ==
  LET s1 == Send(Log(s, "Triggering synchronization routine"),
                 [type |-> "InventoryExchange"])
  IN  IF s1.self.synced
        THEN LET m == (sync_interval = s1.self.synced_period)
                 s2 == Log([s1 EXCEPT !.self.mine = m],
                           IF m THEN "Blockchain ready to mine"
                                ELSE "Blockchain disabled to mine")
             IN  synchronize(s2, s2.self.synced_period)
        ELSE synchronize(s1, s1.self.synchronizing_period)

-----------------------------------------------------------------------------
(* Message handlers                                                        *)

\* The best candidate is promoted at the epoch boundary: the live state is
\* replaced by the candidate's, the data-request stages advance, the finished
\* reports, the block and the chain state are persisted and the block is
\* broadcast.
Promote(s, candidate) ==
  LET block == candidate.block
      block_hash == hash(block)
      block_epoch == block.block_header.beacon.checkpoint
      fin == finished_data_requests(update_data_request_stages(candidate.data_request_pool))
      s1 == [s EXCEPT !.self.chain_state.unspent_outputs_pool = candidate.utxo_set,
                      !.self.data_request_pool = fin.pool,
                      !.self.chain_state.data_request_pool = fin.pool,
                      !.self.transactions_pool = update_transaction_pool(@, block.txns)]
      s2 == IF s1.self.chain_state.chain_info # None
              THEN [s1 EXCEPT !.self.chain_state.chain_info =
                                Some(ChainInfo(block_epoch, block_hash)),
                              !.self.chain_state.block_chain =
                                MapInsert(@, block_epoch, block_hash)]
              ELSE s1
  IN  broadcast_item(
        PersistDataRequests(persist_chain_state(persist_item(s2, block)), fin.drained),
        block)

\* The parked block is dropped at the epoch boundary unless its predecessor is
\* the (new) tip.
EvictParked(self) ==
  IF /\ self.candidate_to_validate # None
     /\ \/ self.chain_state.chain_info = None
        \/ (Unwrap(self.candidate_to_validate)).block_header.beacon.hash_prev_block
             # Tip(self).hash_prev_block
    THEN [self EXCEPT !.candidate_to_validate = None]
    ELSE self

\* The handler of SetEpoch(e).
set_epoch(s, e) ==
  LET s0 == [s EXCEPT !.self.current_epoch = Some(e)]
      s1 == IF /\ s0.self.best_candidate # None
               /\ (Unwrap(s0.self.best_candidate)).block.block_header.beacon.checkpoint = e - 1
              THEN Promote(s0, Unwrap(s0.self.best_candidate))
              ELSE s0
  IN  [s1 EXCEPT !.self = EvictParked([s1.self EXCEPT !.best_candidate = None])]

\* The handler of AddTransaction(tx): a transaction whose inputs are all in
\* the live UTXO set enters the mempool.
add_transaction(s, tx) ==
  IF tx.inputs \subseteq s.self.chain_state.unspent_outputs_pool
    THEN [s EXCEPT !.self.transactions_pool = @ \cup {tx}]
    ELSE Log(s, "Transaction not valid")

-----------------------------------------------------------------------------
(* Specification                                                           *)

NoInput == [op |-> "Init"]

Init ==
  /\ cm \in {ChainManager(None, {}),
             ChainManager(Some(ChainInfo(0, GenesisHash)), GenesisOutputs)}
  /\ sent = << >>
  /\ log = << >>
  /\ last = NoInput
  /\ pre = cm
  /\ inventory = {}
  /\ offered = {}
  /\ timers = synchronize(Run(cm), cm.synchronizing_period).timers
  /\ ticks = 0
  /\ reply = None
  /\ inflight = << >>
  /\ stored = << >>
  /\ added = {}

\* The hashes of the blocks handed to the inventory manager.
AddedItems(msgs) ==
  {msgs[i].hash : i \in {j \in DOMAIN msgs : msgs[j].type = "AddItem"}}

\* The positions of the Puts of the report with the given key, and the keys
\* of the reports put.
ReportPuts(msgs, k) ==
  {i \in DOMAIN msgs : msgs[i] = [type |-> "PutDataRequest", key |-> k]}

StoredKeys(msgs) ==
  {msgs[i].key : i \in {j \in DOMAIN msgs : msgs[j].type = "PutDataRequest"}}

\* A valid block of the current epoch whose predecessor is the tip.
Admissible(self, block) ==
  /\ validate_merkle_tree(block)
  /\ self.current_epoch = Some(block.block_header.beacon.checkpoint)
  /\ self.chain_state.chain_info # None
  /\ block.block_header.beacon.hash_prev_block = Tip(self).hash_prev_block
  /\ block_validate(block, block_reward(block.block_header.beacon.checkpoint),
                    self.chain_state.unspent_outputs_pool)
  /\ validate_transactions(self.chain_state.unspent_outputs_pool, self.transactions_pool,
                           self.data_request_pool, block).ok

Effects(r, input) ==
  /\ cm' = r.self
  /\ sent' = r.sent
  /\ log' = r.log
  /\ last' = input
  /\ pre' = cm
  /\ inventory' = inventory \cup AddedItems(r.sent)
  /\ stored' = [k \in (DOMAIN stored) \cup StoredKeys(r.sent) |->
                  LET before == IF k \in DOMAIN stored THEN stored[k] ELSE 0
                      n == before + Cardinality(ReportPuts(r.sent, k))
                  IN  IF n > 2 THEN 2 ELSE n]
  /\ timers' = timers \o r.timers
  /\ ticks' = ticks
  /\ reply' = None
  /\ offered' =
       IF input.op = "SetEpoch" \/ r.self.chain_state # cm.chain_state
         THEN {}
         ELSE IF input.op = "AddBlock" /\ Admissible(cm, input.block)
                THEN offered \cup {hash(input.block)}
                ELSE offered

\* The requests made with `.wait(ctx)`: AddItem to the inventory manager and
\* Put to the storage manager.
Waited(msgs) ==
  LET waits(msg) == msg.type \in {"AddItem", "PutChainState", "PutDataRequest"}
  IN  SelectSeq(msgs, waits)

\* A message is handled and the requests it waits for resolve, with success,
\* before the next message is taken from the mailbox.
Handled(r, input) ==
  /\ Effects(r, input)
  /\ inflight' = << >>
  /\ added' = added \cup AddedItems(r.sent)

\* A handler that registers its requests without holding the mailbox.
Started_Spawn(r, input) ==
  /\ Effects(r, input)
  /\ inflight' = inflight \o Waited(r.sent)
  /\ added' = added

\* A message is handled, leaving the requests it waits for in flight:
\* `.wait(ctx)` makes the context process no other event until they resolve.
Started(r, input) ==
  /\ inflight = << >>
  /\ Effects(r, input)
  /\ inflight' = Waited(r.sent)
  /\ added' = added

\* AddBlock(block): a block arrives from a session.
AddBlock(block) ==
  Handled(process_block(Run(cm), block), [op |-> "AddBlock", block |-> block])

\* AddTransaction(tx)
AddTransaction(tx) ==
  /\ Cardinality(cm.transactions_pool \cup {tx}) <= MaxMempool
  /\ Handled(add_transaction(Run(cm), tx), [op |-> "AddTransaction", tx |-> tx])

\* SetEpoch(e): the epoch clock announces the next checkpoint.
SetEpoch(e) ==
  /\ \/ cm.current_epoch = None
     \/ cm.current_epoch # None /\ e = Unwrap(cm.current_epoch) + 1
  /\ Handled(set_epoch(Run(cm), e), [op |-> "SetEpoch", epoch |-> e])

\* The synced flag is set or cleared from outside process_block.
SetSynced(flag) ==
  /\ cm.synced # flag
  /\ Handled(Run([cm EXCEPT !.synced = flag]), [op |-> "SetSynced", flag |-> flag])

Next ==
  \/ \E block \in Blocks : AddBlock(block)
  \/ \E tx \in Transactions : AddTransaction(tx)
  \/ \E e \in 1 .. MaxEpoch : SetEpoch(e)
  \/ \E flag \in BOOLEAN : SetSynced(flag)

Spec == Init /\ [][Next]_vars

\* The blocks and the inventory entries of the specification of the
\* inventory exchange: the chain 3 <- 9 <- 11, and the announcements of one or
\* two of the blocks 3 and 9 and of transaction 101.
ExchangedBlocks == {b \in ValidBlocks : b.hash \in {3, 9, 11}}

AnnouncedEntries ==
  {InventoryEntry("Block", 3), InventoryEntry("Block", 9), InventoryEntry("Tx", 101)}

Announcements ==
  {<<e>> : e \in AnnouncedEntries} \cup {<<e, f>> : e, f \in AnnouncedEntries}

\* DiscardKnownInventory(entries): the peer layer asks which of the announced
\* entries are missing.
DiscardKnownInventory(inv_entries) ==
  /\ reply' = Some(discard_existing_inventory_entries(cm, inv_entries))
  /\ cm' = cm
  /\ sent' = << >>
  /\ log' = << >>
  /\ last' = [op |-> "DiscardKnownInventory", inv_entries |-> inv_entries]
  /\ pre' = cm
  /\ UNCHANGED <<inventory, offered, timers, ticks, inflight, stored, added>>

InventoryNext ==
  \/ \E block \in ExchangedBlocks : AddBlock(block)
  \/ \E e \in 1 .. MaxEpoch : SetEpoch(e)
  \/ \E flag \in BOOLEAN : SetSynced(flag)
  \/ \E inv_entries \in Announcements : DiscardKnownInventory(inv_entries)

\* The inventory exchange: blocks arrive, some are parked, and the peer layer
\* asks which announced entries are missing.
InventorySpec == Init /\ [][InventoryNext]_vars

\* The blocks of the specification of persistence: 3 and 4 (which opens a
\* data request) form a chain, 10 is a block on the genesis block.
PersistedBlocks == {b \in ValidBlocks : b.hash \in {3, 4, 10}}

AddBlockWaiting(block) ==
  Started(process_block(Run(cm), block), [op |-> "AddBlock", block |-> block])

SetEpochWaiting(e) ==
  /\ \/ cm.current_epoch = None
     \/ cm.current_epoch # None /\ e = Unwrap(cm.current_epoch) + 1
  /\ Started(set_epoch(Run(cm), e), [op |-> "SetEpoch", epoch |-> e])

\* The oldest request in flight resolves and its `.then` closure runs.
Resolve(outcome) ==
  /\ inflight # << >>
  /\ LET r == Resolved([Run(cm) EXCEPT !.sent = sent, !.log = log], Head(inflight), outcome)
     IN  /\ cm' = r.self
         /\ sent' = r.sent
         /\ log' = r.log
         /\ inflight' = Tail(inflight) \o Waited(SubSeq(r.sent, Len(sent) + 1, Len(r.sent)))
  /\ added' = IF Head(inflight).type = "AddItem" /\ outcome = "Ok"
                THEN added \cup {Head(inflight).hash}
                ELSE added
  /\ UNCHANGED <<last, pre, inventory, offered, timers, ticks, reply, stored>>

PersistNext ==
  \/ \E block \in PersistedBlocks : AddBlockWaiting(block)
  \/ \E e \in 1 .. MaxEpoch : SetEpochWaiting(e)
  \/ \E outcome \in Outcomes : Resolve(outcome)

\* Persistence step by step: a handler leaves its requests in flight and they
\* resolve one by one, each with any outcome.
PersistSpec == Init /\ [][PersistNext]_vars

\* The synchronization routine on its own: the actor has been started with
\* periods of its configuration, the fast one shorter than the slow one; the
\* timer fires and the synced flag is toggled from outside.
SyncInit ==
  /\ \E a, b \in 1 .. MaxPeriod :
       /\ a < b
       /\ cm = [ChainManager(Some(ChainInfo(0, GenesisHash)), GenesisOutputs)
                 EXCEPT !.synchronizing_period = a, !.synced_period = b]
  /\ sent = << >>
  /\ log = << >>
  /\ last = NoInput
  /\ pre = cm
  /\ inventory = {}
  /\ offered = {}
  /\ timers = synchronize(Run(cm), cm.synchronizing_period).timers
  /\ ticks = 0
  /\ reply = None
  /\ inflight = << >>
  /\ stored = << >>
  /\ added = {}

\* The timer scheduled i-th fires and the closure runs.
Tick(i) ==
  /\ i \in DOMAIN timers
  /\ LET r == Triggered(Run(cm), timers[i])
     IN  /\ cm' = r.self
         /\ sent' = r.sent
         /\ log' = r.log
         /\ last' = [op |-> "Tick", interval |-> timers[i]]
         /\ pre' = cm
         /\ timers' = SubSeq(timers, 1, i - 1) \o SubSeq(timers, i + 1, Len(timers))
                         \o r.timers
  /\ ticks' = (ticks + 1) % MaxTicks
  /\ UNCHANGED <<inventory, offered, reply, inflight, stored, added>>

SyncNext ==
  \/ \E i \in DOMAIN timers : Tick(i)
  \/ \E flag \in BOOLEAN : SetSynced(flag)

SyncSpec == SyncInit /\ [][SyncNext]_vars

\* A timer that is scheduled fires.
SyncLive == SyncSpec /\ WF_vars(\E i \in DOMAIN timers : Tick(i))

\* The values stored in the specification of the serialization: options of
\* options of a byte, optional signatures, leadership proofs, blocks as
\* inventory items, and the chain states the actor has after construction
\* and after the delivery of one or two blocks.
SampleBytes == {0, 1, 127, 128, 255}

SampleDigests == {0, 1028, 65535}

SampleSignatures ==
  {NoneV} \cup {SomeV(SignatureValue(r, r, v)) : r \in SampleDigests, v \in {0, 1}}

SampleProofs ==
  {LeadershipProofValue(sig, influence) :
     sig \in {NoneV, SomeV(SignatureValue(1028, 1028, 0))}, influence \in {0, 300}}

SampleChainStates ==
  LET started == {[ChainManager(None, {}) EXCEPT !.current_epoch = Some(MaxEpoch)],
                  [ChainManager(Some(ChainInfo(0, GenesisHash)), GenesisOutputs)
                     EXCEPT !.current_epoch = Some(MaxEpoch)]}
      once == {process_block(Run(self), b).self : self \in started, b \in ValidBlocks}
      twice == {process_block(Run(self), b).self : self \in once, b \in ValidBlocks}
  IN  {ChainManager(None, {}).chain_state}
        \cup {self.chain_state : self \in started \cup once \cup twice}

Stored(type, values) == {[type |-> type, value |-> v] : v \in values}

StoredValues ==
  Stored(OptionT(OptionT(UintT)),
         {NoneV, SomeV(NoneV)} \cup {SomeV(SomeV(U(b))) : b \in SampleBytes})
    \cup Stored(OptionT(SignatureT), SampleSignatures)
    \cup Stored(LeadershipProofT, SampleProofs)
    \cup Stored(InventoryItemT,
                {InventoryItemBlock(b, proof) : b \in Blocks, proof \in SampleProofs})
    \cup Stored(ChainStateT, {ChainStateValue(cs) : cs \in SampleChainStates})

StorableInit ==
  /\ cm = ChainManager(None, {})
  /\ sent = << >>
  /\ log = << >>
  /\ \E x \in StoredValues : last = [op |-> "Storable", type |-> x.type, value |-> x.value]
  /\ pre = cm
  /\ inventory = {}
  /\ offered = {}
  /\ timers = << >>
  /\ ticks = 0
  /\ reply = None
  /\ inflight = << >>
  /\ stored = << >>
  /\ added = {}

\* value.to_bytes()
ToBytes ==
  /\ reply = None
  /\ LET r == Storable_to_bytes(last.value)
     IN  reply' = Some([stage |-> "to_bytes", ok |-> r.ok, bytes |-> r.bytes,
                        value |-> NoneV])
  /\ UNCHANGED <<cm, sent, log, last, pre, inventory, offered, timers, ticks,
                 inflight, stored, added>>

\* T::from_bytes(&bytes), on the bytes to_bytes gave
FromBytes ==
  /\ reply # None
  /\ (Unwrap(reply)).stage = "to_bytes"
  /\ (Unwrap(reply)).ok
  /\ LET r == Storable_from_bytes(last.type, (Unwrap(reply)).bytes)
     IN  reply' = Some([stage |-> "from_bytes", ok |-> r.ok,
                        bytes |-> (Unwrap(reply)).bytes, value |-> r.value])
  /\ UNCHANGED <<cm, sent, log, last, pre, inventory, offered, timers, ticks,
                 inflight, stored, added>>

StorableNext == ToBytes \/ FromBytes

\* The serialization on its own: a value is encoded and the bytes are decoded.
StorableSpec == StorableInit /\ [][StorableNext]_vars

-----------------------------------------------------------------------------
(* Vocabulary of the properties                                            *)

Epoch(block) == block.block_header.beacon.checkpoint

Prev(block) == block.block_header.beacon.hash_prev_block

BestBlock(self) == (Unwrap(self.best_candidate)).block

Parked(self) == Unwrap(self.candidate_to_validate)

\* The live chain state: UTXO set, data-request pool (and its persisted
\* view), mempool, chain_info and block-chain index.
Live(self) == <<self.chain_state, self.data_request_pool, self.transactions_pool>>

Min(S) == CHOOSE x \in S : \A y \in S : x <= y

Logged(line) == \E i \in DOMAIN log : log[i] = line

Requests(h) == {i \in DOMAIN sent : sent[i] = [type |-> "RequestBlock", hash |-> h]}

\* The block reaches the mint check of process_block in the given state.
ReachesValidation(self, block) ==
  /\ self.current_epoch # None
  /\ validate_merkle_tree(block)
  /\ Epoch(block) <= Unwrap(self.current_epoch)
  /\ ~OlderThanTip(self, Epoch(block))
  /\ ~OurCandidateIsBetter(self, block)
  /\ ~UnknownPredecessor(self, Prev(block))

\* The block fails a validation rule in the given state: Merkle root, mint,
\* or transactions.
FailsValidation(self, block) ==
  /\ self.current_epoch # None
  /\ \/ ~validate_merkle_tree(block)
     \/ /\ ReachesValidation(self, block)
        /\ \/ ~block_validate(block, block_reward(Epoch(block)),
                              self.chain_state.unspent_outputs_pool)
           \/ ~validate_transactions(self.chain_state.unspent_outputs_pool,
                                     self.transactions_pool,
                                     self.data_request_pool, block).ok

-----------------------------------------------------------------------------
(* C1 *)

\* C1: among the admissible blocks (valid, of the current epoch, on the tip)
\* delivered so far in this epoch, none has a lower hash than the best
\* candidate, which is present; and an AddBlock replaces a present best
\* candidate only by a block of strictly lower hash, the delivered block
\* winning exactly when its hash is the lowest.
C1_LowestHashWins ==
  /\ offered # {} =>
       /\ cm.best_candidate # None
       /\ \A h \in offered : hash(BestBlock(cm)) <= h
  /\ (last.op = "AddBlock" /\ Admissible(pre, last.block)) =>
       /\ cm.best_candidate # None
       /\ IF pre.best_candidate = None \/ hash(last.block) < hash(BestBlock(pre))
            THEN BestBlock(cm) = last.block
            ELSE cm.best_candidate = pre.best_candidate
  /\ (last.op = "AddBlock" /\ pre.best_candidate # None
        /\ cm.best_candidate # pre.best_candidate) =>
       /\ cm.best_candidate # None
       /\ hash(BestBlock(cm)) < hash(BestBlock(pre))

\* Two admissible blocks were delivered in this epoch, and the last one
\* replaced the candidate because its hash is lower.
C1_Witness ==
  /\ Cardinality(offered) >= 2
  /\ last.op = "AddBlock"
  /\ pre.best_candidate # None
  /\ hash(BestBlock(pre)) \in offered
  /\ cm.best_candidate # pre.best_candidate
  /\ BestBlock(cm) = last.block
  /\ hash(last.block) = Min(offered)

-----------------------------------------------------------------------------
(* C2 *)

-----------------------------------------------------------------------------
(* C3 *)

\* C3 as stated: a block that fails a validation rule (Merkle root, mint,
\* transactions) mutates nothing and has no message sent.
C3_Original ==
  (last.op = "AddBlock" /\ FailsValidation(pre, last.block)) =>
    /\ cm = pre
    /\ sent = << >>

\* C3, amended: a block that fails a validation rule and whose predecessor
\* hash is not the hash of the parked block (so that no parked block is
\* re-fed) mutates nothing and has no message sent.
C3_RejectionMutatesNothing ==
  (/\ last.op = "AddBlock"
   /\ FailsValidation(pre, last.block)
   /\ ~Refeeds(pre, last.block)) =>
    /\ cm = pre
    /\ sent = << >>

\* A block was rejected for its transactions (a double spend) while a
\* candidate and a non-empty UTXO set were held.
C3_Witness ==
  /\ last.op = "AddBlock"
  /\ FailsValidation(pre, last.block)
  /\ ~Refeeds(pre, last.block)
  /\ validate_merkle_tree(last.block)
  /\ Logged("Transactions not valid")
  /\ pre.chain_state.unspent_outputs_pool # {}

\* Blocks were rejected for their Merkle root and for their mint.
C3_WitnessMerkle ==
  /\ last.op = "AddBlock"
  /\ ~Refeeds(pre, last.block)
  /\ Logged("Block merkle tree not valid")

C3_WitnessMint ==
  /\ last.op = "AddBlock"
  /\ ~Refeeds(pre, last.block)
  /\ Logged("Block's mint transaction is not valid")

-----------------------------------------------------------------------------
(* C4 *)

\* The block reaches the test of its predecessor in the given state and the
\* predecessor is neither the tip nor the genesis block.
HasUnknownPredecessor(self, block) ==
  /\ self.current_epoch # None
  /\ validate_merkle_tree(block)
  /\ Epoch(block) <= Unwrap(self.current_epoch)
  /\ ~OlderThanTip(self, Epoch(block))
  /\ ~OurCandidateIsBetter(self, block)
  /\ UnknownPredecessor(self, Prev(block))

\* What C4 says of a block with an unknown predecessor: parked with exactly
\* one request for the predecessor when it is of the current epoch and the
\* node is synced; dropped, the slot unchanged and nothing requested, otherwise.
ParkedOrDropped ==
  IF pre.current_epoch = Some(Epoch(last.block)) /\ pre.synced
    THEN /\ cm.candidate_to_validate = Some(last.block)
         /\ Cardinality(Requests(Prev(last.block))) = 1
         /\ Len(sent) = 1
    ELSE /\ cm.candidate_to_validate = pre.candidate_to_validate
         /\ sent = << >>

\* C4 as stated.
C4_Original ==
  (last.op = "AddBlock" /\ HasUnknownPredecessor(pre, last.block)) => ParkedOrDropped

\* C4, amended: the statement holds when the predecessor hash of the block is
\* not the hash of the parked block (so that no parked block is re-fed
\* first); the rest of the actor is unchanged in both cases.
C4_Parking ==
  (/\ last.op = "AddBlock"
   /\ HasUnknownPredecessor(pre, last.block)
   /\ ~Refeeds(pre, last.block)) =>
    /\ ParkedOrDropped
    /\ cm = [pre EXCEPT !.candidate_to_validate = cm.candidate_to_validate]

\* A block of the current epoch with an unknown predecessor was parked over
\* another parked block while the node was synced.
C4_Witness ==
  /\ last.op = "AddBlock"
  /\ HasUnknownPredecessor(pre, last.block)
  /\ ~Refeeds(pre, last.block)
  /\ pre.synced
  /\ pre.candidate_to_validate # None
  /\ cm.candidate_to_validate = Some(last.block)
  /\ cm.candidate_to_validate # pre.candidate_to_validate
  /\ sent = <<[type |-> "RequestBlock", hash |-> Prev(last.block)]>>

\* A block with an unknown predecessor was dropped: of the current epoch
\* while not synced, and of a past epoch.
C4_WitnessUnsynced ==
  /\ last.op = "AddBlock"
  /\ HasUnknownPredecessor(pre, last.block)
  /\ ~Refeeds(pre, last.block)
  /\ pre.current_epoch = Some(Epoch(last.block))
  /\ ~pre.synced
  /\ pre.candidate_to_validate # None

C4_WitnessPastEpoch ==
  /\ last.op = "AddBlock"
  /\ HasUnknownPredecessor(pre, last.block)
  /\ ~Refeeds(pre, last.block)
  /\ pre.current_epoch # Some(Epoch(last.block))
  /\ pre.synced

-----------------------------------------------------------------------------
(* C5 *)

\* C5 as stated: when a block arrives whose hash is the predecessor hash of
\* the parked block, the parked block is re-fed while that arrival is handled.
C5_Original ==
  (/\ last.op = "AddBlock"
   /\ pre.current_epoch # None
   /\ pre.candidate_to_validate # None
   /\ hash(last.block) = Prev(Parked(pre))) =>
    Logged("Processing block in memory")

\* C5, amended: the parked block is re-fed exactly when a block arrives whose
\* predecessor hash is the hash of the parked block (and the current epoch is
\* set); the parked block then leaves the slot unless it is parked again with
\* a new request for its predecessor.  The arrival of the predecessor of the
\* parked block does not re-feed it.
C5_RefeedOnSuccessor ==
  (last.op = "AddBlock" /\ pre.current_epoch # None) =>
    /\ Logged("Processing block in memory") <=>
         (/\ pre.candidate_to_validate # None
          /\ hash(Parked(pre)) = Prev(last.block))
    /\ Logged("Processing block in memory") =>
         \/ cm.candidate_to_validate # pre.candidate_to_validate
         \/ Requests(Prev(Parked(pre))) # {}
    /\ (/\ pre.candidate_to_validate # None
        /\ hash(last.block) = Prev(Parked(pre))
        /\ hash(Parked(pre)) # Prev(last.block)) =>
         /\ ~Logged("Processing block in memory")
         /\ \/ cm.candidate_to_validate = pre.candidate_to_validate
            \/ cm.candidate_to_validate = Some(last.block)

\* A parked block of a past epoch was re-fed by the arrival of its successor
\* and consolidated, the successor becoming the best candidate.
C5_Witness ==
  /\ last.op = "AddBlock"
  /\ pre.candidate_to_validate # None
  /\ hash(Parked(pre)) = Prev(last.block)
  /\ Logged("Processing block in memory")
  /\ hash(Parked(pre)) \in inventory
  /\ cm.chain_state.chain_info = Some(ChainInfo(Epoch(Parked(pre)), hash(Parked(pre))))
  /\ cm.best_candidate # None
  /\ BestBlock(cm) = last.block

\* The predecessor of the parked block arrived and was admitted; the parked
\* block stayed parked.
C5_WitnessPredecessor ==
  /\ last.op = "AddBlock"
  /\ pre.candidate_to_validate # None
  /\ hash(last.block) = Prev(Parked(pre))
  /\ cm.candidate_to_validate = pre.candidate_to_validate
  /\ cm.best_candidate # None
  /\ BestBlock(cm) = last.block

-----------------------------------------------------------------------------
(* C6 *)

\* The delivered block itself was admitted (made best candidate or
\* consolidated) or parked by the last handler.
AdmittedOrParked ==
  \/ cm.best_candidate # pre.best_candidate /\ cm.best_candidate # None
       /\ BestBlock(cm) = last.block
  \/ cm.candidate_to_validate # pre.candidate_to_validate
       /\ cm.candidate_to_validate = Some(last.block)
  \/ \E i \in DOMAIN sent : sent[i] = [type |-> "AddItem", hash |-> hash(last.block)]

InEpochWindow(self, block) ==
  /\ self.current_epoch # None
  /\ Epoch(block) <= Unwrap(self.current_epoch)
  /\ self.chain_state.chain_info # None => Tip(self).checkpoint <= Epoch(block)

\* C6 as stated: a block is admitted or parked only inside the epoch window,
\* and a block outside the window changes neither best_candidate, the parked
\* slot nor the live chain state.
C6_Original ==
  last.op = "AddBlock" =>
    /\ AdmittedOrParked => InEpochWindow(pre, last.block)
    /\ (pre.current_epoch # None /\ ~InEpochWindow(pre, last.block)) =>
         /\ cm.best_candidate = pre.best_candidate
         /\ cm.candidate_to_validate = pre.candidate_to_validate
         /\ Live(cm) = Live(pre)

\* C6, amended: a block is itself admitted or parked only inside the epoch
\* window, and a block outside the window whose predecessor hash is not the
\* hash of the parked block (so that no parked block is re-fed) changes
\* nothing and has no message sent.
C6_EpochWindow ==
  last.op = "AddBlock" =>
    /\ AdmittedOrParked => InEpochWindow(pre, last.block)
    /\ (/\ pre.current_epoch # None
        /\ ~InEpochWindow(pre, last.block)
        /\ ~Refeeds(pre, last.block)) =>
         /\ cm = pre
         /\ sent = << >>

\* A well-formed block of a future epoch with a known predecessor was dropped.
C6_Witness ==
  /\ last.op = "AddBlock"
  /\ pre.current_epoch # None
  /\ Epoch(last.block) > Unwrap(pre.current_epoch)
  /\ validate_merkle_tree(last.block)
  /\ ~UnknownPredecessor(pre, Prev(last.block))
  /\ ~Refeeds(pre, last.block)
  /\ Logged("Block epoch from the future")

\* A well-formed block older than the tip, on the genesis block, was dropped.
C6_WitnessOlder ==
  /\ last.op = "AddBlock"
  /\ pre.current_epoch # None
  /\ OlderThanTip(pre, Epoch(last.block))
  /\ validate_merkle_tree(last.block)
  /\ Prev(last.block) = GenesisHash
  /\ ~Refeeds(pre, last.block)
  /\ Logged("Ignoring block older than highest block checkpoint")

-----------------------------------------------------------------------------
(* C7 *)

\* C7: no handler lowers chain_info.highest_block_checkpoint.checkpoint (nor
\* removes chain_info).
C7_TipMonotone ==
  pre.chain_state.chain_info # None =>
    /\ cm.chain_state.chain_info # None
    /\ Tip(cm).checkpoint >= Tip(pre).checkpoint

\* A block delivery moved the tip forward from a tip that was not the genesis
\* block.
C7_Witness ==
  /\ last.op = "AddBlock"
  /\ pre.chain_state.chain_info # None
  /\ Tip(pre).hash_prev_block # GenesisHash
  /\ Tip(cm).checkpoint > Tip(pre).checkpoint

\* A promotion at the epoch boundary moved the tip forward.
C7_WitnessPromotion ==
  /\ last.op = "SetEpoch"
  /\ pre.chain_state.chain_info # None
  /\ Tip(pre).hash_prev_block # GenesisHash
  /\ Tip(cm).checkpoint > Tip(pre).checkpoint

-----------------------------------------------------------------------------
(* C8 *)

\* The well-formed block with the given hash.
BlockOf(h) == CHOOSE b \in ValidBlocks : b.hash = h

Index(self) == self.chain_state.block_chain

\* C8 as stated: the index has an entry for every epoch from the lowest
\* consolidated epoch to the tip epoch.
C8_Original ==
  (cm.chain_state.chain_info # None /\ DOMAIN Index(cm) # {}) =>
    \A e \in Min(DOMAIN Index(cm)) .. Tip(cm).checkpoint : e \in DOMAIN Index(cm)

\* C8, amended: while chain_info is present, the index has an entry for
\* exactly the epochs in which a block was consolidated, each entry holding
\* the hash of a consolidated block of that epoch; the tip epoch has the
\* highest entry.  An epoch between the lowest consolidated epoch and the tip
\* epoch in which no block was consolidated has no entry.
C8_IndexOfConsolidatedEpochs ==
  cm.chain_state.chain_info # None =>
    /\ DOMAIN Index(cm) = {Epoch(BlockOf(h)) : h \in inventory}
    /\ \A e \in DOMAIN Index(cm) :
         /\ Index(cm)[e] \in inventory
         /\ Epoch(BlockOf(Index(cm)[e])) = e
         /\ e <= Tip(cm).checkpoint
    /\ inventory # {} => Tip(cm).checkpoint \in DOMAIN Index(cm)

\* Blocks of epochs 1 and 3 were consolidated and none of epoch 2.
C8_Witness ==
  /\ cm.chain_state.chain_info # None
  /\ DOMAIN Index(cm) = {1, 3}
  /\ Tip(cm).checkpoint = 3

-----------------------------------------------------------------------------
(* C9 *)

\* C9 as stated: once a block of epoch e is consolidated, no other block of
\* epoch e is consolidated and the index entry for e keeps its hash.
C9_Original ==
  cm.chain_state.chain_info # None =>
    /\ \A e \in DOMAIN Index(pre) :
         e \in DOMAIN Index(cm) /\ Index(cm)[e] = Index(pre)[e]
    /\ \A h1, h2 \in inventory :
         Epoch(BlockOf(h1)) = Epoch(BlockOf(h2)) => h1 = h2

-----------------------------------------------------------------------------
(* C10 *)

\* The transactions of a block, the mint excluded.
Spends(block) == {block.txns[i] : i \in 2 .. Len(block.txns)}

\* Two transactions of the block consume the same pointer.
DoubleSpends(block) ==
  \E i, j \in DOMAIN block.txns :
    i # j /\ block.txns[i].inputs \cap block.txns[j].inputs # {}

\* C10 as stated: no pointer is consumed by two different consolidated
\* transactions, and no block with two transactions consuming the same pointer
\* is consolidated or held as best candidate.
C10_Original ==
  /\ \A h1, h2 \in inventory :
       \A t1 \in Spends(BlockOf(h1)), t2 \in Spends(BlockOf(h2)) :
         t1.id # t2.id => t1.inputs \cap t2.inputs = {}
  /\ \A h \in inventory : ~DoubleSpends(BlockOf(h))
  /\ cm.best_candidate # None => ~DoubleSpends(BestBlock(cm))

-----------------------------------------------------------------------------
(* C11 *)

\* The hashes of the transactions of the blocks with the given hashes.
TxHashes(hashes) ==
  UNION {{BlockOf(h).txns[i].id : i \in DOMAIN BlockOf(h).txns} : h \in hashes}

\* C11: a handler that consolidates a block leaves in the mempool exactly the
\* transactions it held before whose hash is not in the block, so that none
\* of the block's transaction hashes is in the mempool when the block is
\* committed.
C11_MempoolCleanup ==
  (last.op \in {"AddBlock", "SetEpoch"} /\ AddedItems(sent) # {}) =>
    /\ cm.transactions_pool =
         {t \in pre.transactions_pool : t.id \notin TxHashes(AddedItems(sent))}
    /\ \A t \in cm.transactions_pool : t.id \notin TxHashes(AddedItems(sent))

\* A block was consolidated while the mempool held one of its transactions
\* and a transaction that is not in the block.
C11_Witness ==
  /\ last.op = "AddBlock"
  /\ Cardinality(AddedItems(sent)) = 1
  /\ \E t \in pre.transactions_pool : t.id \in TxHashes(AddedItems(sent))
  /\ \E t \in pre.transactions_pool : t.id \notin TxHashes(AddedItems(sent))
  /\ cm.transactions_pool # {}
  /\ cm.transactions_pool # pre.transactions_pool

\* A promotion at the epoch boundary removed a transaction of the promoted
\* block from the mempool.
C11_WitnessPromotion ==
  /\ last.op = "SetEpoch"
  /\ AddedItems(sent) # {}
  /\ cm.transactions_pool # pre.transactions_pool

-----------------------------------------------------------------------------
(* C12 *)

\* The positions of the broadcasts of the block with hash h in `sent`.
Broadcasts(h) == {i \in DOMAIN sent : sent[i] = [type |-> "Broadcast", hash |-> h]}

BroadcastHashes == {sent[i].hash : i \in {j \in DOMAIN sent : sent[j].type = "Broadcast"}}

\* C12 as stated: a block that is broadcast has been committed (the chain
\* state has been mutated by it and it has been handed to the inventory
\* manager) by the time of the broadcast.
C12_Original == \A h \in BroadcastHashes : h \in inventory

\* C12, amended: process_block broadcasts a block exactly when it stores it as
\* best_candidate, which is before its commit and whether or not it is ever
\* committed: the block is of the current epoch, the handler has not
\* consolidated it and, no parked block being re-fed, the live chain state is
\* as it was; a block that process_block consolidates is not broadcast.  In
\* the promotion at the epoch boundary the broadcast follows the mutation of
\* the chain state and the hand-over to the inventory manager.
C12_BroadcastOnAdmission ==
  /\ last.op = "AddBlock" =>
       /\ \A h \in BroadcastHashes :
            /\ pre.current_epoch = Some(Epoch(BlockOf(h)))
            /\ h \notin AddedItems(sent)
            /\ \/ h = hash(last.block)
               \/ Refeeds(pre, last.block) /\ h = hash(Parked(pre))
       /\ cm.best_candidate # pre.best_candidate =>
            /\ cm.best_candidate # None
            /\ Broadcasts(hash(BestBlock(cm))) # {}
       /\ ~Refeeds(pre, last.block) =>
            /\ Broadcasts(hash(last.block)) # {} <=>
                 /\ cm.best_candidate # pre.best_candidate
                 /\ cm.best_candidate # None
                 /\ BestBlock(cm) = last.block
            /\ BroadcastHashes # {} => Live(cm) = Live(pre)
  /\ last.op = "SetEpoch" =>
       \A h \in BroadcastHashes :
         /\ pre.best_candidate # None /\ h = hash(BestBlock(pre))
         /\ \E j \in DOMAIN sent :
              /\ sent[j] = [type |-> "AddItem", hash |-> h]
              /\ \A i \in Broadcasts(h) : j < i
         /\ cm.chain_state.chain_info # None => Tip(cm).hash_prev_block = h

\* A block of the current epoch was broadcast on becoming best candidate, the
\* live state untouched and the block not committed.
C12_Witness ==
  /\ last.op = "AddBlock"
  /\ ~Refeeds(pre, last.block)
  /\ Broadcasts(hash(last.block)) # {}
  /\ hash(last.block) \notin inventory
  /\ pre.chain_state.chain_info # None
  /\ Live(cm) = Live(pre)

\* A promoted block was broadcast after its commit.
C12_WitnessPromotion ==
  /\ last.op = "SetEpoch"
  /\ BroadcastHashes # {}
  /\ BroadcastHashes \subseteq inventory

-----------------------------------------------------------------------------
(* C13 *)

\* The positions in `sent` at which the block with hash h was admitted: its
\* broadcast as best candidate or its hand-over to the inventory manager.
Admissions(h) ==
  {i \in DOMAIN sent : sent[i] \in {[type |-> "Broadcast", hash |-> h],
                                    [type |-> "AddItem", hash |-> h]}}

\* The block was checked against the live UTXO set (mint or transactions).
ValidationLogged ==
  \/ Logged("Block's mint transaction is not valid")
  \/ Logged("Transactions not valid")

\* C13: with chain_info present, a block that process_block admits as best
\* candidate or consolidates has as predecessor the genesis block or the tip
\* at that moment (the tip before the handler, or the parked block the same
\* handler has just consolidated); a block with another predecessor is not
\* validated against the live UTXO set and changes no live state.
C13_ChainLinkage ==
  (last.op = "AddBlock" /\ pre.chain_state.chain_info # None) =>
    /\ Admissions(hash(last.block)) # {} =>
         \/ Prev(last.block) \in {GenesisHash, Tip(pre).hash_prev_block}
         \/ /\ Refeeds(pre, last.block)
            /\ \E j \in DOMAIN sent :
                 /\ sent[j] = [type |-> "AddItem", hash |-> Prev(last.block)]
                 /\ \A i \in Admissions(hash(last.block)) : j < i
    /\ (Refeeds(pre, last.block) /\ Admissions(hash(Parked(pre))) # {}) =>
         Prev(Parked(pre)) \in {GenesisHash, Tip(pre).hash_prev_block}
    /\ (/\ ~Refeeds(pre, last.block)
        /\ Prev(last.block) \notin {GenesisHash, Tip(pre).hash_prev_block}) =>
         /\ ~ValidationLogged
         /\ Live(cm) = Live(pre)
         /\ cm.best_candidate = pre.best_candidate

\* A block whose predecessor is the tip, a block other than the genesis
\* block, was consolidated.
C13_Witness ==
  /\ last.op = "AddBlock"
  /\ pre.chain_state.chain_info # None
  /\ Tip(pre).hash_prev_block # GenesisHash
  /\ Prev(last.block) = Tip(pre).hash_prev_block
  /\ Admissions(hash(last.block)) # {}

\* A well-formed block of a past epoch whose predecessor is neither the tip
\* nor the genesis block was dropped.
C13_WitnessUnknown ==
  /\ last.op = "AddBlock"
  /\ HasUnknownPredecessor(pre, last.block)
  /\ ~Refeeds(pre, last.block)
  /\ Epoch(last.block) < Unwrap(pre.current_epoch)
  /\ Logged("Ignoring block because previous hash is not known")

-----------------------------------------------------------------------------
(* C14 *)

\* C14 as stated: the mine flag is TRUE only while the pending tick is
\* scheduled at synced_period, never while the routine runs at
\* synchronizing_period.
C14_Original ==
  cm.mine => \A i \in DOMAIN timers : timers[i] = cm.synced_period

-----------------------------------------------------------------------------
(* C15 *)

\* What a tick does: one InventoryExchange anycast and one next tick, at
\* synced_period if the synced flag is set at the tick and at
\* synchronizing_period otherwise.
TickReschedules ==
  /\ Len(timers) = 1
  /\ last.op = "Tick" =>
       /\ Len(sent) = 1
       /\ sent[1] = [type |-> "InventoryExchange"]
       /\ timers = << IF pre.synced THEN pre.synced_period
                                    ELSE pre.synchronizing_period >>

\* C15: every tick sends exactly one InventoryExchange anycast and schedules
\* exactly one next tick, at the period the synced flag selects; exactly one
\* tick is pending at all times, and ticks recur forever.
C15_SelfRescheduling ==
  /\ []TickReschedules
  /\ \A n \in 0 .. (MaxTicks - 1) : []<>(ticks = n)

\* After a tick while synced and a tick while not synced, the routine has
\* gone round the tick counter and one tick is pending at synchronizing_period.
C15_Witness ==
  /\ last.op = "Tick"
  /\ ~pre.synced
  /\ cm.mine
  /\ ticks = 0
  /\ timers = <<cm.synchronizing_period>>

-----------------------------------------------------------------------------
(* C16 *)

\* The hashes of the blocks the actor holds unvalidated: the keys of
\* blocks_to_validate and the parked block.
HeldHashes(self) ==
  (DOMAIN self.blocks_to_validate) \cup {hash(b) : b \in self.candidate_to_validate}

\* C16 as stated: DiscardKnownInventory returns Ok with exactly the entries,
\* in the order given, whose hash is not the hash of a block held in the
\* parked/pending buffer.
C16_Original ==
  last.op = "DiscardKnownInventory" =>
    LET absent(inv_entry) == inv_entry.hash \notin HeldHashes(pre)
    IN  /\ reply # None
        /\ (Unwrap(reply)).ok
        /\ (Unwrap(reply)).value = SelectSeq(last.inv_entries, absent)

-----------------------------------------------------------------------------
(* C17 *)

Puts == {"PutChainState", "PutDataRequest"}

FailureLines ==
  {"Failed to persist chain_info into storage", "Failed to persist block_chain into storage"}

\* C17: when a Put of the chain state or of a data-request report resolves,
\* with a send error or a store error as with success, the actor is left as
\* it was, nothing is sent (no retry), and the request leaves the requests in
\* flight, so that the mailbox reopens as after a successful persist; a
\* failure is only logged.
C17_FailureSwallowed ==
  [][(inflight # << >> /\ Head(inflight).type \in Puts) =>
       /\ cm' = cm
       /\ sent' = sent
       /\ inflight' = Tail(inflight)
       /\ \E outcome \in Outcomes :
            log' = log \o ResolutionLines(Head(inflight), outcome)]_vars

\* The Put of the chain state has failed and the mailbox is open again.
C17_Witness ==
  /\ inflight = << >>
  /\ Logged("Failed to persist chain_info into storage")
  /\ \E i \in DOMAIN sent : sent[i].type = "PutChainState"

\* The Put of a data-request report has failed and the mailbox is open again.
C17_WitnessReport ==
  /\ inflight = << >>
  /\ Logged("Failed to persist block_chain into storage")

-----------------------------------------------------------------------------
(* C18 *)

ChainStatePutInFlight ==
  \E i \in DOMAIN inflight : inflight[i].type = "PutChainState"

\* C18: while a Put of the chain state is in flight no message is handled:
\* the actor, the input of the last handler and the set of consolidated
\* blocks stay as they are until the Put resolves.
C18_MailboxBlocked ==
  [][ChainStatePutInFlight =>
       /\ cm' = cm
       /\ last' = last
       /\ pre' = pre
       /\ inventory' = inventory
       /\ Len(inflight') < Len(inflight)]_vars

\* The Put of the chain state made by a promotion is in flight, the AddItem
\* before it resolved.
C18_Witness ==
  /\ ChainStatePutInFlight
  /\ Head(inflight).type = "PutChainState"
  /\ last.op = "SetEpoch"

-----------------------------------------------------------------------------
(* C19 *)

ChainStatePuts == {i \in DOMAIN sent : sent[i].type = "PutChainState"}

\* C19: no Put of the chain state is sent while chain_info is absent: a
\* promotion persists the chain state exactly when chain_info is present and
\* otherwise only logs the attempt, and a SetEpoch with no candidate sends
\* nothing.
C19_NoPersistWithoutChainInfo ==
  /\ cm.chain_state.chain_info = None => ChainStatePuts = {}
  /\ Logged("Trying to persist an empty chain state value") =>
       cm.chain_state.chain_info = None
  /\ (last.op = "SetEpoch" /\ AddedItems(sent) # {}) =>
       IF cm.chain_state.chain_info = None
         THEN Logged("Trying to persist an empty chain state value")
         ELSE Cardinality(ChainStatePuts) = 1
  /\ (last.op = "SetEpoch" /\ pre.best_candidate = None) => sent = << >>

\* With chain_info absent a best candidate was promoted and the chain state
\* was not persisted.
C19_Witness ==
  /\ last.op = "SetEpoch"
  /\ cm.chain_state.chain_info = None
  /\ AddedItems(sent) # {}
  /\ Logged("Trying to persist an empty chain state value")
  /\ ChainStatePuts = {}

-----------------------------------------------------------------------------
(* C20 *)

\* The data requests the transactions of a block open.
Opened(block) ==
  {OutputPointer(block.txns[i].id, 0) : i \in {j \in DOMAIN block.txns : block.txns[j].dr}}

\* The stages of the pool a consolidation adopts advance by exactly one: a
\* request at the last stage leaves the pool and its report is put once,
\* keyed by the bytes of its pointer; every other request moves to the next
\* stage and nothing is put for it.
AdvancedOnce(before, opened) ==
  LET after == cm.data_request_pool.data_request_pool
      stage(p) == IF p \in opened THEN 1 ELSE before[p]
  IN  /\ DOMAIN after \subseteq (DOMAIN before) \cup opened
      /\ StoredKeys(sent) \subseteq {to_bytes(p) : p \in (DOMAIN before) \cup opened}
      /\ \A p \in (DOMAIN before) \cup opened :
           IF stage(p) = Len(Stages)
             THEN /\ p \notin DOMAIN after
                  /\ Cardinality(ReportPuts(sent, to_bytes(p))) = 1
             ELSE /\ p \in DOMAIN after
                  /\ after[p] = stage(p) + 1
                  /\ ReportPuts(sent, to_bytes(p)) = {}

\* C20: a consolidation advances the stages of the adopted data-request pool
\* exactly once, drains the finished reports and hands each to the storage
\* manager exactly once, keyed by the bytes of its output pointer; no report
\* is put twice and none stays in to_be_stored after the commit.
C20_ReportsDrained ==
  /\ cm.data_request_pool.to_be_stored = {}
  /\ cm.chain_state.data_request_pool = cm.data_request_pool
  /\ \A k \in DOMAIN stored : stored[k] = 1
  /\ (/\ last.op = "AddBlock"
      /\ ~Refeeds(pre, last.block)
      /\ hash(last.block) \in AddedItems(sent)) =>
       AdvancedOnce(pre.data_request_pool.data_request_pool, Opened(last.block))
  /\ (last.op = "SetEpoch" /\ AddedItems(sent) # {}) =>
       AdvancedOnce((Unwrap(pre.best_candidate)).data_request_pool.data_request_pool, {})

\* A consolidation finished a data request and put its report, while another
\* block had opened it.
C20_Witness ==
  /\ last.op = "AddBlock"
  /\ ~Refeeds(pre, last.block)
  /\ hash(last.block) \in AddedItems(sent)
  /\ StoredKeys(sent) = {to_bytes(OutputPointer(104, 0))}
  /\ DOMAIN cm.data_request_pool.data_request_pool = {}

\* A promotion at the epoch boundary advanced the stage of a data request.
C20_WitnessPromotion ==
  /\ last.op = "SetEpoch"
  /\ AddedItems(sent) # {}
  /\ DOMAIN cm.data_request_pool.data_request_pool # {}

-----------------------------------------------------------------------------
(* C21 *)

\* C21 as stated: once the requests of a handler have resolved, whatever
\* their outcome, every hash in the block-chain index is the hash of a block
\* the inventory manager has added.
C21_Original ==
  inflight = << >> => \A e \in DOMAIN Index(cm) : Index(cm)[e] \in added

-----------------------------------------------------------------------------
(* C22 *)

-----------------------------------------------------------------------------
(* C23 *)

\* The pool a consolidation of the block leaves, from the live pool before
\* it: the block's transactions applied, the stages advanced once, the
\* finished reports drained.
PoolAfter(self, block) ==
  finished_data_requests(
    update_data_request_stages(
      validate_transactions(self.chain_state.unspent_outputs_pool, self.transactions_pool,
                            self.data_request_pool, block).data_request_pool)).pool

\* C23: in every state the view of the pool stored in the chain state equals
\* the live pool, field by field; after a consolidation both are the pool
\* as it is after the stage update and the drain of the finished reports.
C23_PersistedViewIsCopy ==
  /\ \A field \in DOMAIN cm.data_request_pool :
       cm.chain_state.data_request_pool[field] = cm.data_request_pool[field]
  /\ DOMAIN cm.chain_state.data_request_pool = DOMAIN cm.data_request_pool
  /\ (/\ last.op = "AddBlock"
      /\ ~Refeeds(pre, last.block)
      /\ hash(last.block) \in AddedItems(sent)) =>
       cm.chain_state.data_request_pool = PoolAfter(pre, last.block)

\* A block that opens a data request was consolidated: the stored view
\* changed and holds the request, as the live pool does.
C23_Witness ==
  /\ last.op = "AddBlock"
  /\ ~Refeeds(pre, last.block)
  /\ hash(last.block) \in AddedItems(sent)
  /\ Opened(last.block) # {}
  /\ cm.chain_state.data_request_pool # pre.chain_state.data_request_pool
  /\ cm.chain_state.data_request_pool.data_request_pool # << >>

-----------------------------------------------------------------------------
(* C24 *)

\* C24 as stated: while a best candidate is held, its shadow UTXO set and
\* shadow data-request pool are what applying its block to the live UTXO set
\* and the live pool gives, and its predecessor is the tip or the genesis
\* block.
C24_Original ==
  cm.best_candidate # None =>
    LET candidate == Unwrap(cm.best_candidate)
        v == validate_transactions(cm.chain_state.unspent_outputs_pool,
                                   cm.transactions_pool, cm.data_request_pool,
                                   candidate.block)
    IN  /\ v.ok
        /\ candidate.utxo_set = v.utxo_set
        /\ candidate.data_request_pool = v.data_request_pool
        /\ cm.chain_state.chain_info # None =>
             Prev(candidate.block) \in {Tip(cm).hash_prev_block, GenesisHash}

-----------------------------------------------------------------------------
(* C25 *)

\* The last handler changed the live UTXO set, the mempool or the live
\* data-request pool, or handed a block to the inventory manager.
Committed ==
  \/ cm.chain_state.unspent_outputs_pool # pre.chain_state.unspent_outputs_pool
  \/ cm.transactions_pool # pre.transactions_pool
  \/ cm.data_request_pool # pre.data_request_pool
  \/ AddedItems(sent) # {}

\* The tip and the index entry of its epoch are the given block.
TipIs(self, block) ==
  /\ self.chain_state.chain_info = Some(ChainInfo(Epoch(block), hash(block)))
  /\ Epoch(block) \in DOMAIN Index(self)
  /\ Index(self)[Epoch(block)] = hash(block)

\* C25 as stated: whenever the delivery of a block (no parked block being
\* re-fed) changes the live UTXO set, the mempool or the live pool, or hands
\* the block to the inventory manager, the same step makes the block the tip
\* and inserts it into the index, with chain_info present or absent.
C25_Original ==
  (last.op = "AddBlock" /\ ~Refeeds(pre, last.block) /\ Committed) => TipIs(cm, last.block)

-----------------------------------------------------------------------------
(* C26 *)

\* C26: while chain_info is present and a block has been consolidated, the
\* block-chain index maps the checkpoint of the tip to the hash of the tip,
\* and no key of the index is above that checkpoint.
C26_TipIndexAgreement ==
  (cm.chain_state.chain_info # None /\ inventory # {}) =>
    /\ Tip(cm).checkpoint \in DOMAIN Index(cm)
    /\ Index(cm)[Tip(cm).checkpoint] = Tip(cm).hash_prev_block
    /\ \A e \in DOMAIN Index(cm) : e <= Tip(cm).checkpoint

\* A block delivery moved the tip to a later epoch, the index keeping the
\* entry of the former tip.
C26_Witness ==
  /\ last.op = "AddBlock"
  /\ cm.chain_state.chain_info # None
  /\ DOMAIN Index(pre) # {}
  /\ Tip(cm).checkpoint > Tip(pre).checkpoint
  /\ Tip(pre).checkpoint \in DOMAIN Index(cm)
  /\ Index(cm)[Tip(cm).checkpoint] = hash(last.block)

\* A second block of the tip's epoch was consolidated: the entry of the epoch
\* and the tip were both replaced.
C26_WitnessSameEpoch ==
  /\ last.op = "AddBlock"
  /\ cm.chain_state.chain_info # None
  /\ DOMAIN Index(pre) # {}
  /\ Tip(cm).checkpoint = Tip(pre).checkpoint
  /\ Tip(cm) # Tip(pre)

-----------------------------------------------------------------------------
(* C27 *)

\* The block is the best candidate of the actor.
IsBestCandidate(self, block) ==
  self.best_candidate # None /\ BestBlock(self) = block

\* The block has been consolidated: the block-chain index holds its hash at
\* its epoch.
IsConsolidated(self, block) ==
  /\ block \in ValidBlocks
  /\ Epoch(block) \in DOMAIN Index(self)
  /\ Index(self)[Epoch(block)] = hash(block)

\* The last handler changed nothing and neither broadcast nor persisted
\* anything.
NothingDone ==
  /\ cm = pre
  /\ \A i \in DOMAIN sent : sent[i].type \notin {"Broadcast", "AddItem", "PutDataRequest"}

\* C27 as stated: the delivery of a block that is the best candidate, or that
\* has been consolidated, changes nothing and sends no broadcast, no AddItem
\* and no Put of a report.
C27_Original ==
  (/\ last.op = "AddBlock"
   /\ IsBestCandidate(pre, last.block) \/ IsConsolidated(pre, last.block)) => NothingDone

-----------------------------------------------------------------------------
(* C28 *)

\* The block is of the current epoch and passes, against the live state of
\* the given actor, the Merkle check, the epoch window, the test of its
\* predecessor, the check of its mint and the validation of its transactions.
PassesAllChecks(self, block) ==
  /\ self.current_epoch = Some(Epoch(block))
  /\ MerkleRoot(block.txns) = block.block_header.hash_merkle_root
  /\ self.chain_state.chain_info # None =>
       /\ Tip(self).checkpoint <= Epoch(block)
       /\ Prev(block) \in {GenesisHash, Tip(self).hash_prev_block}
  /\ block.txns[1].inputs = {} /\ block.txns[1].value <= block_reward(Epoch(block))
  /\ validate_transactions(self.chain_state.unspent_outputs_pool, self.transactions_pool,
                           self.data_request_pool, block).ok

\* The block was broadcast by the last handler.
Broadcast(block) == Broadcasts(hash(block)) # {}

\* C28: a block process_block broadcasts is the delivered block or the parked
\* block re-fed before it; it is of the current epoch, has passed every check
\* against the live state at that moment, and is made best_candidate with
\* the broadcast (the re-fed block may be replaced by the delivered block,
\* broadcast after it); the handler neither parks it nor hands it to the
\* inventory manager.  A delivered block that is rejected, parked or
\* consolidated is not broadcast.
C28_BroadcastOnlyCandidates ==
  last.op = "AddBlock" =>
    /\ \A h \in BroadcastHashes :
         /\ h \notin AddedItems(sent)
         /\ Cardinality(Broadcasts(h)) = 1
         /\ \/ h = hash(last.block)
            \/ Refeeds(pre, last.block) /\ h = hash(Parked(pre))
    /\ Broadcast(last.block) =>
         /\ PassesAllChecks(cm, last.block)
         /\ IsBestCandidate(cm, last.block)
         /\ cm.candidate_to_validate = Some(last.block) =>
              pre.candidate_to_validate = Some(last.block)
         /\ Requests(Prev(last.block)) = {}
         /\ \A i \in Broadcasts(hash(last.block)) : i = Len(sent)
    /\ (Refeeds(pre, last.block) /\ Broadcast(Parked(pre))) =>
         /\ PassesAllChecks(pre, Parked(pre))
         /\ cm.candidate_to_validate # pre.candidate_to_validate
         /\ \/ IsBestCandidate(cm, Parked(pre))
            \/ IsBestCandidate(cm, last.block) /\ Broadcast(last.block)
    /\ (~Refeeds(pre, last.block) /\ ~IsBestCandidate(cm, last.block)) => BroadcastHashes = {}
    /\ (~Refeeds(pre, last.block) /\ cm.best_candidate = pre.best_candidate) =>
         BroadcastHashes = {}

\* A delivered block replaced the best candidate and was broadcast.
C28_Witness ==
  /\ last.op = "AddBlock"
  /\ Broadcast(last.block)
  /\ pre.best_candidate # None
  /\ pre.chain_state.chain_info # None
  /\ Tip(pre).hash_prev_block # GenesisHash
  /\ Len(last.block.txns) > 1
  /\ Cardinality(offered) >= 2

\* A parked block was re-fed, became best candidate and was broadcast.
C28_WitnessRefed ==
  /\ last.op = "AddBlock"
  /\ Refeeds(pre, last.block)
  /\ Broadcast(Parked(pre))

-----------------------------------------------------------------------------
(* C29 *)

\* How many times the last handler re-fed the parked block.
Refed == Cardinality({i \in DOMAIN log : log[i] = "Processing block in memory"})

\* How many blocks the last handler ran through the chain of checks: each
\* ends in one broadcast (the block becomes best candidate) or in one log
\* line (it is rejected, dropped, parked or consolidated).
Processed ==
  Cardinality({i \in DOMAIN log : log[i] # "Processing block in memory"})
    + Cardinality({i \in DOMAIN sent : sent[i].type = "Broadcast"})

\* C29: the handling of one block re-feeds the parked block at most once and
\* runs at most two blocks through the checks, the delivered block and the
\* block that was parked; the slot is emptied for the re-feed, so that
\* afterwards it is empty or holds the delivered block, or the re-fed block
\* parked again with a new request for its predecessor; it never holds more
\* than one block.
C29_BoundedRefeed ==
  /\ Cardinality(cm.candidate_to_validate) <= 1
  /\ (last.op = "AddBlock" /\ pre.current_epoch # None) =>
       /\ Refed = (IF Refeeds(pre, last.block) THEN 1 ELSE 0)
       /\ Processed = 1 + Refed
       /\ Refed = 1 =>
            \/ cm.candidate_to_validate \in {None, Some(last.block)}
            \/ /\ cm.candidate_to_validate = pre.candidate_to_validate
               /\ Requests(Prev(Parked(pre))) # {}

\* The parked block was re-fed and consolidated and the delivered block was
\* broadcast: two blocks processed, the slot left empty.
C29_Witness ==
  /\ last.op = "AddBlock"
  /\ Refed = 1
  /\ Processed = 2
  /\ hash(Parked(pre)) \in AddedItems(sent)
  /\ Broadcast(last.block)
  /\ cm.candidate_to_validate = None

\* The parked block was re-fed and parked again.
C29_WitnessParkedAgain ==
  /\ last.op = "AddBlock"
  /\ Refed = 1
  /\ cm.candidate_to_validate = pre.candidate_to_validate

-----------------------------------------------------------------------------
(* C30: no block is processed before the first SetEpoch                    *)

\* The actor with its current epoch unset.
EpochUnset(self) == [self EXCEPT !.current_epoch = None]

\* What process_block leaves while the current epoch is unset: the actor as
\* it was, nothing sent, and the one warning.
Warned(self) == Log(Run(self), "ChainManager doesn't have current epoch")

\* C30: a block delivered while current_epoch is unset changes no field of
\* the actor (best candidate, parked slot, chain state, mempool, pool of data
\* requests) and sends no message; the handler only logs that the epoch is
\* missing.  The same holds of process_block for every block and every state
\* the actor reaches, taken with the epoch unset: a block parked or a best
\* candidate held in that state is left alone and nothing is re-fed.
C30_NoEpochNoOp ==
  /\ (last.op = "AddBlock" /\ pre.current_epoch = None) =>
       /\ cm = pre
       /\ sent = << >>
       /\ log = <<"ChainManager doesn't have current epoch">>
       /\ Refed = 0
  /\ \A block \in Blocks :
       process_block(Run(EpochUnset(cm)), block) = Warned(EpochUnset(cm))

\* A well-formed block that names the tip as its predecessor was delivered to
\* an actor that has its chain loaded and has not been told the epoch.
C30_Witness ==
  /\ last.op = "AddBlock"
  /\ pre.current_epoch = None
  /\ pre.chain_state.chain_info # None
  /\ last.block \in ValidBlocks
  /\ Prev(last.block) = GenesisHash
  /\ log = <<"ChainManager doesn't have current epoch">>

\* A state with a parked block whose successor exists: with the epoch unset
\* the successor would not re-feed it.
C30_WitnessParked ==
  /\ cm.candidate_to_validate # None
  /\ \E block \in Blocks : Refeeds(cm, block)

====
